---- MODULE Spec2Model ----
(***************************************************************************)
(* A model of the Monkey interpreter (chaichai-fe/monkey-ts): the Pratt    *)
(* parser (parser/parser.ts), the object system (object/object.ts), the    *)
(* environment (object/environment.ts), the builtins                       *)
(* (evaluator/builtins.ts) and the tree-walking evaluator                  *)
(* (evaluator/evaluator.ts).                                               *)
(*                                                                         *)
(* JavaScript object references are modelled by a `ref` field: two object  *)
(* values are the same object (===) exactly when their refs are equal.     *)
(***************************************************************************)
EXTENDS Integers, Sequences, FiniteSets, TLC

VARIABLES
    program,    \* evalProgram: program.statements
    stmtNo,     \* evalProgram: position of the for loop (next statement)
    result,     \* evalProgram: the local `result`
    pc,         \* evalProgram: "run" in the loop, "done" after it returned
    heap,       \* the evaluation state: environments, allocation counter
    log,        \* history: the evalNode calls of the last statement
    trace,      \* history: the statements evaluated so far and their results
    tokens,     \* Lexer: the token stream the parser reads
    ps,         \* Parser: curToken, peekToken, errors, lexer position
    stmts,      \* parseProgram: program.statements built so far
    ppc,        \* parseProgram: "parse" in the loop, "parsed" after it
    infixIn,    \* evalInfixExpression: the call's arguments
    infixOut,   \* evalInfixExpression: the call's result
    outcome,    \* execute: the object it returned
    given,      \* execute: the bindings of the environment when it was called
    arr,        \* builtins: the Array objects that exist, oldest first
    ret,        \* builtins: the last call: name, arguments, result
    calls       \* builtins: the number of calls made

execVars == <<outcome, given>>
builtinVars == <<arr, ret, calls>>

vars == <<program, stmtNo, result, pc, heap, log, trace,
          tokens, ps, stmts, ppc, infixIn, infixOut, execVars, builtinVars>>

----------------------------------------------------------------------------
(* Bounds of the model *)

MaxStmts == 3       \* statements per evaluated program
MaxTokens == 6      \* tokens per parsed expression
MaxAbs == 7         \* integer operands range over -MaxAbs..MaxAbs

----------------------------------------------------------------------------
(* AST nodes (ast/ast.ts).  One record shape for every node class:         *)
(*   kind  the class, tok  the operator / name / literal text,             *)
(*   num   the numeric value of an IntegerLiteral, 1/0 of a BooleanLiteral,*)
(*   kids  the child nodes in source order.                                *)

N(kind, tok, num, kids) == [kind |-> kind, tok |-> tok, num |-> num, kids |-> kids]

NilNode == N("nil", "", 0, <<>>)                      \* a null node
Ident(name) == N("Identifier", name, 0, <<>>)
IntLit(lit, v) == N("IntegerLiteral", lit, v, <<>>)
StrLit(s) == N("StringLiteral", s, 0, <<>>)
BoolLit(b) == N("BooleanLiteral", IF b THEN "true" ELSE "false", IF b THEN 1 ELSE 0, <<>>)
Prefix(op, right) == N("PrefixExpression", op, 0, <<right>>)
Infix(left, op, right) == N("InfixExpression", op, 0, <<left, right>>)
If(cond, cons) == N("IfExpression", "if", 0, <<cond, cons>>)
IfElse(cond, cons, alt) == N("IfExpression", "if", 0, <<cond, cons, alt>>)
\* kids = <<body, parameter identifiers...>>
Fn(params, body) == N("FunctionLiteral", "fn", 0, <<body>> \o params)
\* kids = <<callee, arguments...>>
Call(func, args) == N("CallExpression", "(", 0, <<func>> \o args)
ArrayLit(elements) == N("ArrayLiteral", "[", 0, elements)
\* kids = <<key1, value1, key2, value2, ...>>
HashLit(pairs) == N("HashLiteral", "{", 0, pairs)
Index(left, index) == N("IndexExpression", "[", 0, <<left, index>>)
Let(name, value) == N("LetStatement", name, 0, <<value>>)
Return(value) == N("ReturnStatement", "return", 0, <<value>>)
ExprStmt(e) == N("ExpressionStatement", e.tok, 0, <<e>>)
Block(statements) == N("BlockStatement", "{", 0, statements)

----------------------------------------------------------------------------
(* AST rendering (the toString methods of ast/ast.ts) *)

RECURSIVE NodeToString(_)
RECURSIVE JoinNodes(_, _)
RECURSIVE ConcatNodes(_)
RECURSIVE JoinPairs(_)

\* nodes.map(toString).join(sep)
JoinNodes(nodes, sep) ==
    IF nodes = <<>> THEN ""
    ELSE IF Len(nodes) = 1 THEN NodeToString(nodes[1])
    ELSE NodeToString(nodes[1]) \o sep \o JoinNodes(Tail(nodes), sep)

\* out += stmt.toString() for every statement
ConcatNodes(nodes) ==
    IF nodes = <<>> THEN "" ELSE NodeToString(nodes[1]) \o ConcatNodes(Tail(nodes))

\* the "key:value" strings of a HashLiteral joined by ", "
JoinPairs(kids) ==
    IF kids = <<>> THEN ""
    ELSE NodeToString(kids[1]) \o ":" \o NodeToString(kids[2])
            \o (IF Len(kids) > 2 THEN ", " \o JoinPairs(Tail(Tail(kids))) ELSE "")

NodeToString(node) ==
    CASE node.kind = "nil" -> ""
      [] node.kind \in {"Identifier", "IntegerLiteral", "StringLiteral", "BooleanLiteral"} ->
            node.tok
      [] node.kind = "PrefixExpression" ->
            "(" \o node.tok \o NodeToString(node.kids[1]) \o ")"
      [] node.kind = "InfixExpression" ->
            "(" \o NodeToString(node.kids[1]) \o " " \o node.tok \o " "
                \o NodeToString(node.kids[2]) \o ")"
      [] node.kind = "IfExpression" ->
            "if" \o NodeToString(node.kids[1]) \o " " \o NodeToString(node.kids[2])
                \o (IF Len(node.kids) > 2 THEN "else " \o NodeToString(node.kids[3]) ELSE "")
      [] node.kind = "FunctionLiteral" ->
            "fn(" \o JoinNodes(Tail(node.kids), ", ") \o ") " \o NodeToString(node.kids[1])
      [] node.kind = "CallExpression" ->
            NodeToString(node.kids[1]) \o "(" \o JoinNodes(Tail(node.kids), ", ") \o ")"
      [] node.kind = "ArrayLiteral" -> "[" \o JoinNodes(node.kids, ", ") \o "]"
      [] node.kind = "HashLiteral" -> "{" \o JoinPairs(node.kids) \o "}"
      [] node.kind = "IndexExpression" ->
            "(" \o NodeToString(node.kids[1]) \o "[" \o NodeToString(node.kids[2]) \o "])"
      [] node.kind = "LetStatement" ->
            "let " \o node.tok \o " = " \o NodeToString(node.kids[1]) \o ";"
      [] node.kind = "ReturnStatement" -> "return " \o NodeToString(node.kids[1]) \o ";"
      [] node.kind = "ExpressionStatement" -> NodeToString(node.kids[1])
      [] node.kind = "BlockStatement" -> ConcatNodes(node.kids)

\* Program.toString
ProgramToString(statements) == ConcatNodes(statements)

----------------------------------------------------------------------------
(* Tokens (token/token.ts) and the Pratt parser (parser/parser.ts).  The    *)
(* lexer is its output: the token sequence `input`, followed by EOF tokens. *)

Tok(type, literal) == [Type |-> type, Literal |-> literal]
EOFToken == Tok("EOF", "")

\* enum Precedence
LOWEST == 1
EQUALS == 2
LESSGREATER == 3
SUM == 4
PRODUCT == 5
PREFIX == 6
CALL == 7
INDEX == 8

\* a table that gives every operator the precedence of +
precedencesFlat(type) ==
    CASE type \in {"==", "!=", "<", ">", "+", "-", "/", "*"} -> SUM
      [] type = "(" -> CALL
      [] type = "[" -> INDEX
      [] OTHER -> 0

\* the precedences table; 0 where the table has no entry (undefined)
precedences(type) ==
    CASE type \in {"==", "!="} -> EQUALS
      [] type \in {"<", ">"} -> LESSGREATER
      [] type \in {"+", "-"} -> SUM
      [] type \in {"/", "*"} -> PRODUCT
      [] type = "(" -> CALL
      [] type = "[" -> INDEX
      [] OTHER -> 0

\* the token types with a registered prefix / infix parse function
PrefixParseFns ==
    {"IDENT", "INT", "STRING", "!", "-", "TRUE", "FALSE", "(", "IF", "FUNCTION", "[", "{"}
InfixParseFns == {"+", "-", "/", "*", "==", "!=", "<", ">", "(", "["}

\* parseInt(literal, 10) of the integer literals of the model; the lexer
\* makes INT tokens of digits only, any other text gives NaN
IntegerTexts == <<"0", "1", "2", "3", "4", "5", "6", "7", "8", "9", "10">>
ParseIntIsNaN(literal) == \A i \in DOMAIN IntegerTexts : IntegerTexts[i] # literal
ParseInt(literal) == (CHOOSE i \in DOMAIN IntegerTexts : IntegerTexts[i] = literal) - 1

\* the parser: the lexer (input, position), curToken, peekToken, errors
nextToken(p) ==
    IF p.position < Len(p.input)
    THEN [p EXCEPT !.curToken = p.peekToken, !.peekToken = p.input[p.position + 1],
                   !.position = @ + 1]
    ELSE [p EXCEPT !.curToken = p.peekToken, !.peekToken = EOFToken]

\* new Parser(lexer): reads two tokens
NewParser(input) ==
    nextToken(nextToken([input |-> input, position |-> 0, curToken |-> Tok("", ""),
                         peekToken |-> Tok("", ""), errors |-> <<>>, stuck |-> FALSE,
                         dropped |-> 0]))

\* the tokens not yet consumed: curToken, peekToken and those the lexer
\* has not produced, EOF not counted
Remaining(p) ==
    (Len(p.input) - p.position) + (IF p.peekToken.Type = "EOF" THEN 0 ELSE 1)
        + (IF p.curToken.Type = "EOF" THEN 0 ELSE 1)

\* a loop whose next iteration starts at q after one that started at p goes
\* on: it has consumed a token.  Otherwise the next iteration is the same
\* as this one and the loop never ends, which the parser marked stuck
\* stands for
Consumed(p, q) == Remaining(q) < Remaining(p)

\* history: p.dropped counts the statements for which parseStatement
\* returned null, which the loops of parseProgram and parseBlockStatement
\* leave out of the statements they collect
Dropped(stmt, p) == IF stmt.node.kind = "nil" THEN [p EXCEPT !.dropped = @ + 1] ELSE p
Diverged(q) == [q EXCEPT !.stuck = TRUE]

curTokenIs(p, t) == p.curToken.Type = t
peekTokenIs(p, t) == p.peekToken.Type = t

peekError(p, t) ==
    [p EXCEPT !.errors = Append(@, "expected next token to be " \o t \o ", got "
                                    \o p.peekToken.Type \o " instead")]

expectPeek(p, t) ==
    IF peekTokenIs(p, t) THEN [p |-> nextToken(p), ok |-> TRUE]
    ELSE [p |-> peekError(p, t), ok |-> FALSE]

\* a noPrefixParseFnError that records nothing
noPrefixParseFnErrorSilent(p, t) == p

noPrefixParseFnError(p, t) ==
    [p EXCEPT !.errors = Append(@, "no prefix parse function for " \o t \o " found")]

peekPrecedence(p) ==
    IF precedences(p.peekToken.Type) # 0 THEN precedences(p.peekToken.Type) ELSE LOWEST

curPrecedence(p) ==
    IF precedences(p.curToken.Type) # 0 THEN precedences(p.curToken.Type) ELSE LOWEST

\* the result of a parse function: the parser after it and the node, NilNode
\* for null
Parsed(p, node) == [p |-> p, node |-> node]
IsNil(node) == node.kind = "nil"

parseIdentifier(p) == Parsed(p, Ident(p.curToken.Literal))

parseIntegerLiteral(p) ==
    IF ParseIntIsNaN(p.curToken.Literal)
    THEN Parsed([p EXCEPT !.errors = Append(@, "could not parse " \o p.curToken.Literal
                                                \o " as integer")], NilNode)
    ELSE Parsed(p, IntLit(p.curToken.Literal, ParseInt(p.curToken.Literal)))

parseStringLiteral(p) == Parsed(p, StrLit(p.curToken.Literal))

parseBoolean(p) ==
    Parsed(p, N("BooleanLiteral", p.curToken.Literal,
                IF curTokenIs(p, "TRUE") THEN 1 ELSE 0, <<>>))

\* `const x = e; ...`: [x \in {e} |-> body] is the body with x naming the
\* value of e, and Const of it is that body's value
Const(f) == f[CHOOSE x \in DOMAIN f : TRUE]

RECURSIVE parseStatement(_)
RECURSIVE parseLetStatement(_)
RECURSIVE parseReturnStatement(_)
RECURSIVE parseExpressionStatement(_)
RECURSIVE parseBlockStatement(_)
RECURSIVE parseBlockStatementLoop(_, _)
RECURSIVE parseExpression(_, _)
RECURSIVE parseExpressionLoop(_, _, _)
RECURSIVE prefixParse(_)
RECURSIVE infixParse(_, _)
RECURSIVE parseArrayLiteral(_)
RECURSIVE parseHashLiteral(_)
RECURSIVE parseHashLiteralLoop(_, _)
RECURSIVE parsePrefixExpression(_)
RECURSIVE parseGroupedExpression(_)
RECURSIVE parseIfExpression(_)
RECURSIVE parseFunctionLiteral(_)
RECURSIVE parseInfixExpression(_, _)
RECURSIVE parseCallExpression(_, _)
RECURSIVE parseIndexExpression(_, _)
RECURSIVE parseExpressionList(_, _)
RECURSIVE parseExpressionListLoop(_, _, _)

parseStatement(p) ==
    CASE p.curToken.Type = "LET" -> parseLetStatement(p)
      [] p.curToken.Type = "RETURN" -> parseReturnStatement(p)
      [] OTHER -> parseExpressionStatement(p)

\* the optional semicolon that ends a statement
SkipSemicolon(p) == IF peekTokenIs(p, ";") THEN nextToken(p) ELSE p

parseLetStatement(p) ==
    LET named == expectPeek(p, "IDENT") IN
    IF ~named.ok THEN Parsed(named.p, NilNode) ELSE
    LET assigned == expectPeek(named.p, "=") IN
    IF ~assigned.ok THEN Parsed(assigned.p, NilNode) ELSE
    Const([value \in {parseExpression(nextToken(assigned.p), LOWEST)} |->
    IF IsNil(value.node) THEN value ELSE
    Parsed(SkipSemicolon(value.p), Let(named.p.curToken.Literal, value.node))])

parseReturnStatement(p) ==
    Const([returnValue \in {parseExpression(nextToken(p), LOWEST)} |->
    IF IsNil(returnValue.node) THEN returnValue ELSE
    Parsed(SkipSemicolon(returnValue.p), Return(returnValue.node))])

parseExpressionStatement(p) ==
    Const([expression \in {parseExpression(p, LOWEST)} |->
    IF IsNil(expression.node) THEN expression ELSE
    Parsed(SkipSemicolon(expression.p),
           N("ExpressionStatement", p.curToken.Literal, 0, <<expression.node>>))])

parseBlockStatement(p) == parseBlockStatementLoop(nextToken(p), <<>>)

\* the while loop of parseBlockStatement without its test for EOF
parseBlockStatementLoopNoEOF(p, statements) ==
    IF curTokenIs(p, "}") THEN Parsed(p, Block(statements)) ELSE
    Const([stmt \in {parseStatement(p)} |->
    IF ~Consumed(p, nextToken(stmt.p)) THEN Parsed(Diverged(stmt.p), NilNode) ELSE
    parseBlockStatementLoop(Dropped(stmt, nextToken(stmt.p)),
                            IF IsNil(stmt.node) THEN statements
                            ELSE Append(statements, stmt.node))])

\* the while loop of parseBlockStatement; statements is block.statements
parseBlockStatementLoop(p, statements) ==
    IF curTokenIs(p, "}") \/ curTokenIs(p, "EOF") THEN Parsed(p, Block(statements)) ELSE
    Const([stmt \in {parseStatement(p)} |->
    IF ~Consumed(p, nextToken(stmt.p)) THEN Parsed(Diverged(stmt.p), NilNode) ELSE
    parseBlockStatementLoop(Dropped(stmt, nextToken(stmt.p)),
                            IF IsNil(stmt.node) THEN statements
                            ELSE Append(statements, stmt.node))])

parseExpression(p, precedence) ==
    IF p.curToken.Type \notin PrefixParseFns
    THEN Parsed(noPrefixParseFnError(p, p.curToken.Type), NilNode) ELSE
    Const([leftExp \in {prefixParse(p)} |->
    IF IsNil(leftExp.node) THEN leftExp ELSE
    parseExpressionLoop(leftExp.p, precedence, leftExp.node)])

\* the while loop of parseExpression
parseExpressionLoop(p, precedence, leftExp) ==
    IF ~(~peekTokenIs(p, ";") /\ precedence < peekPrecedence(p)) THEN Parsed(p, leftExp) ELSE
    IF p.peekToken.Type \notin InfixParseFns THEN Parsed(p, leftExp) ELSE
    Const([next \in {infixParse(nextToken(p), leftExp)} |->
    IF IsNil(next.node) THEN next ELSE
    IF ~Consumed(p, next.p) THEN Parsed(Diverged(next.p), NilNode) ELSE
    parseExpressionLoop(next.p, precedence, next.node)])

\* prefixParseFns.get(curToken.Type)()
prefixParse(p) ==
    CASE p.curToken.Type = "IDENT" -> parseIdentifier(p)
      [] p.curToken.Type = "INT" -> parseIntegerLiteral(p)
      [] p.curToken.Type = "STRING" -> parseStringLiteral(p)
      [] p.curToken.Type \in {"!", "-"} -> parsePrefixExpression(p)
      [] p.curToken.Type \in {"TRUE", "FALSE"} -> parseBoolean(p)
      [] p.curToken.Type = "(" -> parseGroupedExpression(p)
      [] p.curToken.Type = "IF" -> parseIfExpression(p)
      [] p.curToken.Type = "FUNCTION" -> parseFunctionLiteral(p)
      [] p.curToken.Type = "[" -> parseArrayLiteral(p)
      [] p.curToken.Type = "{" -> parseHashLiteral(p)

\* infixParseFns.get(curToken.Type)(left)
infixParse(p, left) ==
    CASE p.curToken.Type = "(" -> parseCallExpression(p, left)
      [] p.curToken.Type = "[" -> parseIndexExpression(p, left)
      [] OTHER -> parseInfixExpression(p, left)

parseArrayLiteral(p) ==
    Const([elements \in {parseExpressionList(p, "]")} |->
    IF ~elements.ok THEN Parsed(elements.p, NilNode) ELSE
    Parsed(elements.p, ArrayLit(elements.list))])

parseHashLiteral(p) == parseHashLiteralLoop(p, <<>>)

\* the while loop of parseHashLiteral and the expectPeek that follows it;
\* pairs is hash.pairs
parseHashLiteralLoop(p, pairs) ==
    IF peekTokenIs(p, "}")
    THEN LET brace == expectPeek(p, "}") IN
         Parsed(brace.p, IF brace.ok THEN HashLit(pairs) ELSE NilNode)
    ELSE
    Const([key \in {parseExpression(nextToken(p), LOWEST)} |->
    IF IsNil(key.node) THEN key ELSE
    LET colon == expectPeek(key.p, ":") IN
    IF ~colon.ok THEN Parsed(colon.p, NilNode) ELSE
    Const([value \in {parseExpression(nextToken(colon.p), LOWEST)} |->
    IF IsNil(value.node) THEN value ELSE
    LET comma == expectPeek(value.p, ",") IN
    IF ~peekTokenIs(value.p, "}") /\ ~comma.ok THEN Parsed(comma.p, NilNode) ELSE
    IF ~Consumed(p, value.p) THEN Parsed(Diverged(value.p), NilNode) ELSE
    parseHashLiteralLoop(IF peekTokenIs(value.p, "}") THEN value.p ELSE comma.p,
                         pairs \o <<key.node, value.node>>)])])

parsePrefixExpression(p) ==
    Const([right \in {parseExpression(nextToken(p), PREFIX)} |->
    IF IsNil(right.node) THEN right ELSE
    Parsed(right.p, Prefix(p.curToken.Literal, right.node))])

parseGroupedExpression(p) ==
    Const([exp \in {parseExpression(nextToken(p), LOWEST)} |->
    LET paren == expectPeek(exp.p, ")") IN
    IF ~paren.ok THEN Parsed(paren.p, NilNode) ELSE Parsed(paren.p, exp.node)])

parseIfExpression(p) ==
    LET open == expectPeek(p, "(") IN
    IF ~open.ok THEN Parsed(open.p, NilNode) ELSE
    Const([condition \in {parseExpression(nextToken(open.p), LOWEST)} |->
    IF IsNil(condition.node) THEN condition ELSE
    LET close == expectPeek(condition.p, ")") IN
    IF ~close.ok THEN Parsed(close.p, NilNode) ELSE
    LET brace == expectPeek(close.p, "{") IN
    IF ~brace.ok THEN Parsed(brace.p, NilNode) ELSE
    Const([consequence \in {parseBlockStatement(brace.p)} |->
    IF ~peekTokenIs(consequence.p, "ELSE")
    THEN Parsed(consequence.p, If(condition.node, consequence.node)) ELSE
    LET elseBrace == expectPeek(nextToken(consequence.p), "{") IN
    IF ~elseBrace.ok THEN Parsed(elseBrace.p, NilNode) ELSE
    Const([alternative \in {parseBlockStatement(elseBrace.p)} |->
    Parsed(alternative.p,
           IfElse(condition.node, consequence.node, alternative.node))])])])

\* the while loop of parseFunctionParameters and the expectPeek after it
RECURSIVE parseFunctionParametersLoop(_, _)
parseFunctionParametersLoop(p, identifiers) ==
    IF peekTokenIs(p, ",")
    THEN LET q == nextToken(nextToken(p)) IN
         IF ~Consumed(p, q) THEN [p |-> Diverged(q), list |-> <<>>, ok |-> FALSE] ELSE
         parseFunctionParametersLoop(q, Append(identifiers, Ident(q.curToken.Literal)))
    ELSE LET paren == expectPeek(p, ")") IN
         [p |-> paren.p, list |-> IF paren.ok THEN identifiers ELSE <<>>, ok |-> paren.ok]

\* [p, list, ok]; ok is FALSE for null
parseFunctionParameters(p) ==
    IF peekTokenIs(p, ")") THEN [p |-> nextToken(p), list |-> <<>>, ok |-> TRUE]
    ELSE LET q == nextToken(p) IN
         parseFunctionParametersLoop(q, <<Ident(q.curToken.Literal)>>)

parseFunctionLiteral(p) ==
    LET open == expectPeek(p, "(") IN
    IF ~open.ok THEN Parsed(open.p, NilNode) ELSE
    LET parameters == parseFunctionParameters(open.p) IN
    IF ~parameters.ok THEN Parsed(parameters.p, NilNode) ELSE
    LET brace == expectPeek(parameters.p, "{") IN
    IF ~brace.ok THEN Parsed(brace.p, NilNode) ELSE
    Const([body \in {parseBlockStatement(brace.p)} |->
    Parsed(body.p, Fn(parameters.list, body.node))])

parseInfixExpression(p, left) ==
    Const([right \in {parseExpression(nextToken(p), curPrecedence(p))} |->
    IF IsNil(right.node) THEN right ELSE
    Parsed(right.p, Infix(left, p.curToken.Literal, right.node))])

parseCallExpression(p, func) ==
    Const([args \in {parseExpressionList(p, ")")} |->
    IF ~args.ok THEN Parsed(args.p, NilNode) ELSE
    Parsed(args.p, Call(func, args.list))])

parseIndexExpression(p, left) ==
    Const([index \in {parseExpression(nextToken(p), LOWEST)} |->
    IF IsNil(index.node) THEN index ELSE
    LET bracket == expectPeek(index.p, "]") IN
    IF ~bracket.ok THEN Parsed(bracket.p, NilNode) ELSE
    Parsed(bracket.p, Index(left, index.node))])

\* [p, list, ok]; ok is FALSE for null
parseExpressionList(p, end) ==
    IF peekTokenIs(p, end) THEN [p |-> nextToken(p), list |-> <<>>, ok |-> TRUE] ELSE
    Const([firstExpr \in {parseExpression(nextToken(p), LOWEST)} |->
    IF IsNil(firstExpr.node) THEN [p |-> firstExpr.p, list |-> <<>>, ok |-> FALSE] ELSE
    parseExpressionListLoop(firstExpr.p, end, <<firstExpr.node>>)])

\* the while loop of parseExpressionList and the expectPeek that follows it
parseExpressionListLoop(p, end, list) ==
    IF peekTokenIs(p, ",")
    THEN Const([expr \in {parseExpression(nextToken(nextToken(p)), LOWEST)} |->
         IF IsNil(expr.node) THEN [p |-> expr.p, list |-> <<>>, ok |-> FALSE] ELSE
         IF ~Consumed(p, expr.p)
         THEN [p |-> Diverged(expr.p), list |-> <<>>, ok |-> FALSE] ELSE
         parseExpressionListLoop(expr.p, end, Append(list, expr.node))])
    ELSE LET closing == expectPeek(p, end) IN
         [p |-> closing.p, list |-> IF closing.ok THEN list ELSE <<>>, ok |-> closing.ok]

----------------------------------------------------------------------------
(* JavaScript numbers.  IntegerObject.value is a JS number: an integer, or *)
(* after a division by zero Infinity, -Infinity or NaN; -0 is kept apart   *)
(* because it decides the sign of x / 0.                                   *)
(*   cls \in {"int", "negzero", "inf", "neginf", "nan"}, n the integer.    *)

JsNum(cls, n) == [cls |-> cls, n |-> n]
JsInt(n) == JsNum("int", n)
JsNaN == JsNum("nan", 0)

JsIsZero(x) == x.cls = "negzero" \/ (x.cls = "int" /\ x.n = 0)
JsIsInf(x) == x.cls \in {"inf", "neginf"}
JsSignNeg(x) == x.cls \in {"negzero", "neginf"} \/ (x.cls = "int" /\ x.n < 0)
JsSigned(cls, neg) ==
    CASE cls = "inf" -> JsNum(IF neg THEN "neginf" ELSE "inf", 0)
      [] cls = "zero" -> IF neg THEN JsNum("negzero", 0) ELSE JsInt(0)

JsNeg(x) ==
    CASE x.cls = "nan" -> x
      [] x.cls = "inf" -> JsNum("neginf", 0)
      [] x.cls = "neginf" -> JsNum("inf", 0)
      [] x.cls = "negzero" -> JsInt(0)
      [] x.cls = "int" -> IF x.n = 0 THEN JsNum("negzero", 0) ELSE JsInt(-x.n)

JsAdd(a, b) ==
    CASE a.cls = "nan" \/ b.cls = "nan" -> JsNaN
      [] JsIsInf(a) /\ JsIsInf(b) -> IF a.cls = b.cls THEN a ELSE JsNaN
      [] JsIsInf(a) -> a
      [] JsIsInf(b) -> b
      [] a.cls = "negzero" /\ b.cls = "negzero" -> a
      [] a.cls = "negzero" -> b
      [] b.cls = "negzero" -> a
      [] OTHER -> JsInt(a.n + b.n)

JsSub(a, b) == JsAdd(a, JsNeg(b))

JsMul(a, b) ==
    LET neg == JsSignNeg(a) # JsSignNeg(b) IN
    CASE a.cls = "nan" \/ b.cls = "nan" -> JsNaN
      [] (JsIsInf(a) /\ JsIsZero(b)) \/ (JsIsZero(a) /\ JsIsInf(b)) -> JsNaN
      [] JsIsInf(a) \/ JsIsInf(b) -> JsSigned("inf", neg)
      [] JsIsZero(a) \/ JsIsZero(b) -> JsSigned("zero", neg)
      [] OTHER -> JsInt(a.n * b.n)

\* the floor of the rational a / b, for integers a and b # 0
FloorDiv(a, b) == IF b > 0 THEN a \div b ELSE (-a) \div (-b)

\* Math.floor(a / b)
JsFloorDiv(a, b) ==
    LET neg == JsSignNeg(a) # JsSignNeg(b) IN
    CASE a.cls = "nan" \/ b.cls = "nan" -> JsNaN
      [] JsIsInf(a) /\ JsIsInf(b) -> JsNaN
      [] JsIsZero(a) /\ JsIsZero(b) -> JsNaN
      [] JsIsInf(a) \/ JsIsZero(b) -> JsSigned("inf", neg)
      [] JsIsInf(b) -> JsSigned("zero", neg)
      [] JsIsZero(a) -> JsSigned("zero", neg)
      [] OTHER -> JsInt(FloorDiv(a.n, b.n))

JsEq(a, b) ==
    CASE a.cls = "nan" \/ b.cls = "nan" -> FALSE
      [] JsIsZero(a) /\ JsIsZero(b) -> TRUE
      [] OTHER -> a = b

JsLt(a, b) ==
    CASE a.cls = "nan" \/ b.cls = "nan" -> FALSE
      [] a.cls = "neginf" -> b.cls # "neginf"
      [] b.cls = "inf" -> a.cls # "inf"
      [] a.cls = "inf" \/ b.cls = "neginf" -> FALSE
      [] OTHER -> a.n < b.n

----------------------------------------------------------------------------
(* Runtime objects (object/object.ts).  One record shape for every class:  *)
(*   type   MonkeyObject.type(), or "null" / "undefined" for the JS values *)
(*          null and undefined, or "THROW" for a thrown host exception     *)
(*   cls, num   IntegerObject.value (a JS number), BooleanObject.value     *)
(*   str    StringObject.value, ErrorObject.message, the builtin's name    *)
(*   elems  ArrayObject.elements; HashObject.pairs as <<k1, v1, k2, v2..>> *)
(*          in insertion order; ReturnValue.value as <<value>>             *)
(*   names, body, env   FunctionObject.parameters, .body, .env             *)
(*   ref    the identity of the object                                     *)

BaseObject ==
    [type |-> "", cls |-> "int", num |-> 0, str |-> "", elems |-> <<>>,
     names |-> <<>>, body |-> NilNode, env |-> 0, ref |-> 0]

INTEGER_OBJ == "INTEGER"
BOOLEAN_OBJ == "BOOLEAN"
STRING_OBJ == "STRING"
NULL_OBJ == "NULL"
ERROR_OBJ == "ERROR"
RETURN_VALUE_OBJ == "RETURN_VALUE"
FUNCTION_OBJ == "FUNCTION"
BUILTIN_OBJ == "BUILTIN"
ARRAY_OBJ == "ARRAY"
HASH_OBJ == "HASH"

\* the JS values null and undefined, and a thrown TypeError
NoValue == [BaseObject EXCEPT !.type = "null"]
Undefined == [BaseObject EXCEPT !.type = "undefined"]
Throw == [BaseObject EXCEPT !.type = "THROW", !.str = "TypeError"]
\* the RangeError the host raises when its call stack is exhausted
StackExhausted == [Throw EXCEPT !.str = "RangeError"]

IsNullish(o) == o.type \in {"null", "undefined"}

\* the three singletons of the evaluator
NULL == [BaseObject EXCEPT !.type = NULL_OBJ, !.ref = 1]
TRUEOBJ == [BaseObject EXCEPT !.type = BOOLEAN_OBJ, !.num = 1, !.ref = 2]
FALSEOBJ == [BaseObject EXCEPT !.type = BOOLEAN_OBJ, !.num = 0, !.ref = 3]

BuiltinNames == <<"len", "first", "last", "rest", "push", "puts", "write">>

\* builtins: the Map of the seven BuiltinObjects, each created once
BuiltinObject(name) ==
    [BaseObject EXCEPT !.type = BUILTIN_OBJ, !.str = name,
        !.ref = 3 + (CHOOSE i \in 1..Len(BuiltinNames) : BuiltinNames[i] = name)]

HasBuiltin(name) == \E i \in 1..Len(BuiltinNames) : BuiltinNames[i] = name

\* the first reference an evaluation allocates
FirstRef == NULL.ref + 2 + Len(BuiltinNames) + 1

IntegerObject(x, ref) ==
    [BaseObject EXCEPT !.type = INTEGER_OBJ, !.cls = x.cls, !.num = x.n, !.ref = ref]
StringObject(s, ref) == [BaseObject EXCEPT !.type = STRING_OBJ, !.str = s, !.ref = ref]
NullObject(ref) == [BaseObject EXCEPT !.type = NULL_OBJ, !.ref = ref]
ErrorObject(msg, ref) == [BaseObject EXCEPT !.type = ERROR_OBJ, !.str = msg, !.ref = ref]
ReturnValue(v, ref) ==
    [BaseObject EXCEPT !.type = RETURN_VALUE_OBJ, !.elems = <<v>>, !.ref = ref]
ArrayObject(elements, ref) ==
    [BaseObject EXCEPT !.type = ARRAY_OBJ, !.elems = elements, !.ref = ref]
HashObject(pairs, ref) == [BaseObject EXCEPT !.type = HASH_OBJ, !.elems = pairs, !.ref = ref]
FunctionObject(parameters, body, env, ref) ==
    [BaseObject EXCEPT !.type = FUNCTION_OBJ, !.names = parameters, !.body = body,
        !.env = env, !.ref = ref]

\* IntegerObject.value
NumOf(o) == JsNum(o.cls, o.num)

\* left === right
SameObject(a, b) ==
    IF IsNullish(a) \/ IsNullish(b) THEN a.type = b.type ELSE a.ref = b.ref

----------------------------------------------------------------------------
(* String hashing (StringObject.hashKey).  TLC cannot index a string, so   *)
(* the character codes of the strings of the model are tabulated.          *)

CharCodes(s) ==
    CASE s = "" -> <<>>
      [] s = "a" -> <<97>>
      [] s = "b" -> <<98>>
      [] s = "ab" -> <<97, 98>>
      [] s = "ba" -> <<98, 97>>
      [] s = "aa" -> <<97, 97>>
      [] s = "bb" -> <<98, 98>>
      [] s = "Aa" -> <<65, 97>>
      [] s = "BB" -> <<66, 66>>
      [] s = "one" -> <<111, 110, 101>>

\* One round of the loop of hashKey on the 32-bit hash h = <<high 16 bits,
\* low 16 bits>>: hash = ((hash << 5) - hash) + c; hash = hash & hash, that
\* is (31 * hash + c) modulo 2^32
HashRound(h, c) ==
    LET t == 31 * h[2] + c IN
    <<(31 * h[1] + (t \div 65536)) % 65536, t % 65536>>

RECURSIVE StringHash(_, _)
StringHash(codes, h) ==
    IF codes = <<>> THEN h ELSE StringHash(Tail(codes), HashRound(h, Head(codes)))

\* Math.abs of the signed 32-bit integer h
AbsInt32(h) ==
    IF h[1] < 32768 THEN h
    ELSE IF h[2] = 0 THEN <<(65536 - h[1]) % 65536, 0>>
    ELSE <<65535 - h[1], 65536 - h[2]>>

\* an isHashable that leaves out BooleanObject
isHashableNoBoolean(o) == o.type \in {INTEGER_OBJ, STRING_OBJ}

\* 'hashKey' in obj: Integer, Boolean and String define hashKey
isHashable(o) == o.type \in {INTEGER_OBJ, BOOLEAN_OBJ, STRING_OBJ}

\* hashKey().toString(): `${type}:${value}`, kept as <<type, value>> with
\* the value a JS number (-0 prints as 0) or the two halves of a string hash
HashKeyOf(o) ==
    CASE o.type = INTEGER_OBJ ->
            <<o.type, IF o.cls = "negzero" THEN "int" ELSE o.cls, o.num, 0>>
      [] o.type = BOOLEAN_OBJ -> <<o.type, "int", o.num, 0>>
      [] o.type = STRING_OBJ ->
            LET h == AbsInt32(StringHash(CharCodes(o.str), <<0, 0>>)) IN
            <<o.type, "int", h[1], h[2]>>

\* pairs.get(key): the position of the pair stored under key, 0 if none
RECURSIVE PairIndex(_, _, _)
PairIndex(pairs, key, i) ==
    IF 2 * i > Len(pairs) THEN 0
    ELSE IF HashKeyOf(pairs[2 * i - 1]) = key THEN i
    ELSE PairIndex(pairs, key, i + 1)

\* pairs.set(key, new HashPair(k, v)): replaces the pair stored under key
PairsSet(pairs, k, v) ==
    LET i == PairIndex(pairs, HashKeyOf(k), 1) IN
    IF i = 0 THEN pairs \o <<k, v>>
    ELSE [pairs EXCEPT ![2 * i - 1] = k, ![2 * i] = v]

----------------------------------------------------------------------------
(* Environment (object/environment.ts).  The heap holds the environments:  *)
(* envs[e] = [store, outer], outer = 0 for the root.                       *)

EmptyStore == [n \in {} |-> Undefined]

Environment(outer) == [store |-> EmptyStore, outer |-> outer]

\* the environment a program is evaluated in: the first one created
RootEnv == 1

RECURSIVE EnvGet(_, _, _)
EnvGet(envs, e, name) ==
    LET obj == IF name \in DOMAIN envs[e].store THEN envs[e].store[name] ELSE Undefined IN
    IF obj.type # "undefined" THEN [val |-> obj, ok |-> TRUE]
    ELSE IF envs[e].outer # 0 THEN EnvGet(envs, envs[e].outer, name)
    ELSE [val |-> NoValue, ok |-> FALSE]

\* a set that assigns to the nearest frame already binding the name
RECURSIVE EnvSetAssign(_, _, _, _)
EnvSetAssign(envs, e, name, val) ==
    IF name \in DOMAIN envs[e].store \/ envs[e].outer = 0
    THEN [envs EXCEPT ![e].store = (name :> val) @@ @]
    ELSE EnvSetAssign(envs, envs[e].outer, name, val)

EnvSet(envs, e, name, val) ==
    [envs EXCEPT ![e].store = (name :> val) @@ @]

----------------------------------------------------------------------------
(* The evaluation state threaded through the evaluator:                    *)
(*   envs   the environments, next  the next fresh object reference,       *)
(*   sp     the depth of the host call stack (applyFunction frames),       *)
(*   log, depth   history of the evalNode calls and their nesting,         *)
(*   lex    history: lex[e] is the environment the function whose call     *)
(*          created e was defined in (0 for the root).                     *)

MaxCallDepth == 4   \* host stack frames before the host raises RangeError

\* an event of the history: vals are the objects involved, snap the
\* environments at that moment (calls and returns only)
Ev(ev, d, node, vals, env, snap) ==
    [ev |-> ev, d |-> d, node |-> node, vals |-> vals, env |-> env, snap |-> snap]

R(v, st) == [v |-> v, st |-> st]

Alloc(st) == [st EXCEPT !.next = @ + 1]

Note(st, ev, node, vals, env) ==
    [st EXCEPT !.log = Append(@, Ev(ev, st.depth, node, vals, env, <<>>))]

IsThrow(o) == o.type = "THROW"

\* isError(objValue): objValue !== null && objValue.type() === ERROR_OBJ;
\* undefined.type() raises a TypeError
\* an isError that finds no error
IsErrorNever(o) == FALSE
IsError(o) == o.type = ERROR_OBJ
IsErrorThrows(o) == o.type = "undefined"

\* the exception that ends a sub-evaluation followed by isError: the one
\* the sub-evaluation raised, or the TypeError of isError(undefined)
Raised(v) == IF IsThrow(v) THEN v ELSE Throw

\* the outcome of a sub-evaluation followed by isError
Chk(v) ==
    CASE IsThrow(v) \/ IsErrorThrows(v) -> "throw"
      [] IsError(v) -> "error"
      [] OTHER -> "ok"

newError(message, ref) == ErrorObject(message, ref)

nativeBoolToBooleanObject(input) == IF input THEN TRUEOBJ ELSE FALSEOBJ

evalBangOperatorExpression(right) ==
    IF SameObject(right, TRUEOBJ) THEN FALSEOBJ
    ELSE IF SameObject(right, FALSEOBJ) THEN TRUEOBJ
    ELSE IF SameObject(right, NULL) THEN TRUEOBJ
    ELSE FALSEOBJ

evalMinusPrefixOperatorExpression(right, ref) ==
    IF IsNullish(right) THEN Throw
    ELSE IF right.type # INTEGER_OBJ THEN newError("unknown operator: -" \o right.type, ref)
    ELSE IntegerObject(JsNeg(NumOf(right)), ref)

evalPrefixExpression(operator, right, ref) ==
    CASE operator = "!" -> evalBangOperatorExpression(right)
      [] operator = "-" -> evalMinusPrefixOperatorExpression(right, ref)
      [] OTHER -> IF IsNullish(right) THEN Throw
                  ELSE newError("unknown operator: " \o operator \o right.type, ref)

\* a division that rounds the quotient of two nonzero integers toward zero
TruncDivide(leftVal, rightVal) ==
    IF leftVal.cls = "int" /\ rightVal.cls = "int" /\ leftVal.n # 0 /\ rightVal.n # 0
    THEN LET a == IF leftVal.n < 0 THEN -leftVal.n ELSE leftVal.n
             b == IF rightVal.n < 0 THEN -rightVal.n ELSE rightVal.n
         IN JsInt(IF (leftVal.n < 0) # (rightVal.n < 0) THEN -(a \div b) ELSE a \div b)
    ELSE JsFloorDiv(leftVal, rightVal)

\* leftVal / rightVal of the "/" case: Math.floor(leftVal / rightVal)
IntegerDivide(leftVal, rightVal) == JsFloorDiv(leftVal, rightVal)

evalIntegerInfixExpression(operator, left, right, ref) ==
    LET leftVal == NumOf(left)
        rightVal == NumOf(right)
    IN
    CASE operator = "+" -> IntegerObject(JsAdd(leftVal, rightVal), ref)
      [] operator = "-" -> IntegerObject(JsSub(leftVal, rightVal), ref)
      [] operator = "*" -> IntegerObject(JsMul(leftVal, rightVal), ref)
      [] operator = "/" -> IntegerObject(IntegerDivide(leftVal, rightVal), ref)
      [] operator = "<" -> nativeBoolToBooleanObject(JsLt(leftVal, rightVal))
      [] operator = ">" -> nativeBoolToBooleanObject(JsLt(rightVal, leftVal))
      [] operator = "==" -> nativeBoolToBooleanObject(JsEq(leftVal, rightVal))
      [] operator = "!=" -> nativeBoolToBooleanObject(~JsEq(leftVal, rightVal))
      [] OTHER -> newError("unknown operator: " \o left.type \o " " \o operator
                            \o " " \o right.type, ref)

\* a string operator that also compares strings by value
evalStringInfixWithEquality(operator, left, right, ref) ==
    CASE operator = "+" -> StringObject(left.str \o right.str, ref)
      [] operator = "==" -> nativeBoolToBooleanObject(left.str = right.str)
      [] operator = "!=" -> nativeBoolToBooleanObject(left.str # right.str)
      [] OTHER -> newError("unknown operator: " \o left.type \o " " \o operator
                            \o " " \o right.type, ref)

evalStringInfixExpression(operator, left, right, ref) ==
    IF operator # "+"
    THEN newError("unknown operator: " \o left.type \o " " \o operator
                    \o " " \o right.type, ref)
    ELSE StringObject(left.str \o right.str, ref)

\* a comparison of the contents, whatever the references
StructuralEquals(left, right) == [left EXCEPT !.ref = 0] = [right EXCEPT !.ref = 0]

\* the reference comparison of the == and != operators
ReferenceEquals(left, right) == SameObject(left, right)

evalInfixExpression(operator, left, right, ref) ==
    IF IsNullish(left) THEN Throw
    ELSE IF left.type = INTEGER_OBJ /\ IsNullish(right) THEN Throw
    ELSE IF left.type = INTEGER_OBJ /\ right.type = INTEGER_OBJ
        THEN evalIntegerInfixExpression(operator, left, right, ref)
    ELSE IF left.type = STRING_OBJ /\ IsNullish(right) THEN Throw
    ELSE IF left.type = STRING_OBJ /\ right.type = STRING_OBJ
        THEN evalStringInfixExpression(operator, left, right, ref)
    ELSE IF operator = "==" THEN nativeBoolToBooleanObject(ReferenceEquals(left, right))
    ELSE IF operator = "!=" THEN nativeBoolToBooleanObject(~ReferenceEquals(left, right))
    ELSE IF IsNullish(right) THEN Throw
    ELSE IF left.type # right.type
        THEN newError("type mismatch: " \o left.type \o " " \o operator
                        \o " " \o right.type, ref)
    ELSE newError("unknown operator: " \o left.type \o " " \o operator
                    \o " " \o right.type, ref)

isTruthy(o) ==
    IF SameObject(o, NULL) THEN FALSE
    ELSE IF SameObject(o, TRUEOBJ) THEN TRUE
    ELSE IF SameObject(o, FALSEOBJ) THEN FALSE
    ELSE TRUE

\* the builtins consulted before the environment: property test of the order
evalIdentifierBuiltinFirst(node, env, st, ref) ==
    IF HasBuiltin(node.tok) THEN BuiltinObject(node.tok)
    ELSE LET got == EnvGet(st.envs, env, node.tok) IN
         IF got.ok THEN got.val
         ELSE newError("identifier not found: " \o node.tok, ref)

evalIdentifier(node, env, st, ref) ==
    LET got == EnvGet(st.envs, env, node.tok) IN
    IF got.ok THEN got.val
    ELSE IF HasBuiltin(node.tok) THEN BuiltinObject(node.tok)
    ELSE newError("identifier not found: " \o node.tok, ref)

\* an extendFunctionEnv that encloses the root environment, not func.env
extendFunctionEnvRoot(func, args, envs) ==
    Append(envs, [store |-> [n \in {func.names[i] : i \in 1..Len(func.names)} |->
                                LET i == CHOOSE i \in 1..Len(func.names) : func.names[i] = n
                                IN IF i <= Len(args) THEN args[i] ELSE Undefined],
                  outer |-> RootEnv])

\* newEnclosedEnvironment(func.env), then env.set(parameter, args[i]) for
\* every parameter; args[i] is undefined past the end of args
extendFunctionEnv(func, args, envs) ==
    LET seeded == [i \in 1..Len(func.names) |->
                      IF i <= Len(args) THEN args[i] ELSE Undefined]
        \* later parameters of the same name overwrite earlier ones
        lastOf(n) == CHOOSE i \in 1..Len(func.names) :
                        /\ func.names[i] = n
                        /\ \A j \in (i + 1)..Len(func.names) : func.names[j] # n
        store == [n \in {func.names[i] : i \in 1..Len(func.names)} |-> seeded[lastOf(n)]]
    IN Append(envs, [store |-> store, outer |-> func.env])

unwrapReturnValue(objValue) ==
    IF ~IsNullish(objValue) /\ objValue.type = RETURN_VALUE_OBJ THEN objValue.elems[1]
    ELSE IF IsNullish(objValue) THEN NULL
    ELSE objValue

evalArrayIndexExpression(array, index) ==
    LET idx == NumOf(index)
        max == Len(array.elems) - 1
    IN
    IF JsLt(idx, JsInt(0)) \/ JsLt(JsInt(max), idx) THEN NULL
    ELSE IF idx.cls = "nan" THEN Undefined
    ELSE array.elems[idx.n + 1]

evalHashIndexExpression(hash, index, ref) ==
    IF IsNullish(index) THEN Throw
    ELSE IF ~isHashable(index) THEN newError("unusable as hash key: " \o index.type, ref)
    ELSE LET i == PairIndex(hash.elems, HashKeyOf(index), 1) IN
         IF i = 0 THEN NULL ELSE hash.elems[2 * i]

evalIndexExpression(left, index, ref) ==
    IF IsNullish(left) THEN Throw
    ELSE IF left.type = ARRAY_OBJ /\ IsNullish(index) THEN Throw
    ELSE IF left.type = ARRAY_OBJ /\ index.type = INTEGER_OBJ
        THEN evalArrayIndexExpression(left, index)
    ELSE IF left.type = HASH_OBJ THEN evalHashIndexExpression(left, index, ref)
    ELSE newError("index operator not supported: " \o left.type, ref)

----------------------------------------------------------------------------
(* Builtins (evaluator/builtins.ts) *)

\* obj.inspect() raises a TypeError when it reaches a null or undefined
RECURSIVE InspectThrows(_)
InspectThrows(o) ==
    IF IsNullish(o) THEN TRUE
    ELSE IF o.type \in {ARRAY_OBJ, HASH_OBJ, RETURN_VALUE_OBJ}
        THEN \E i \in 1..Len(o.elems) : InspectThrows(o.elems[i])
    ELSE FALSE

WrongNumberOfArguments(got, want, ref) ==
    newError("wrong number of arguments. got=" \o ToString(got) \o ", want="
                \o ToString(want), ref)

\* a message without the kind of the argument: property test of the format
MustBeArrayNoKind(name, arg, ref) ==
    newError("argument to '" \o name \o "' must be ARRAY", ref)

MustBeArray(name, arg, ref) ==
    newError("argument to '" \o name \o "' must be ARRAY, got " \o arg.type, ref)

BuiltinLen(args, ref) ==
    IF Len(args) # 1 THEN WrongNumberOfArguments(Len(args), 1, ref)
    ELSE IF IsNullish(args[1]) THEN Throw
    ELSE IF args[1].type = STRING_OBJ THEN IntegerObject(JsInt(Len(args[1].str)), ref)
    ELSE IF args[1].type = ARRAY_OBJ THEN IntegerObject(JsInt(Len(args[1].elems)), ref)
    ELSE newError("argument to 'len' not supported, got " \o args[1].type, ref)

BuiltinFirst(args, ref) ==
    IF Len(args) # 1 THEN WrongNumberOfArguments(Len(args), 1, ref)
    ELSE IF IsNullish(args[1]) THEN Throw
    ELSE IF args[1].type # ARRAY_OBJ THEN MustBeArray("first", args[1], ref)
    ELSE IF Len(args[1].elems) > 0 THEN args[1].elems[1]
    ELSE NullObject(ref)

BuiltinLast(args, ref) ==
    IF Len(args) # 1 THEN WrongNumberOfArguments(Len(args), 1, ref)
    ELSE IF IsNullish(args[1]) THEN Throw
    ELSE IF args[1].type # ARRAY_OBJ THEN MustBeArray("last", args[1], ref)
    ELSE IF Len(args[1].elems) > 0 THEN args[1].elems[Len(args[1].elems)]
    ELSE NullObject(ref)

BuiltinRest(args, ref) ==
    IF Len(args) # 1 THEN WrongNumberOfArguments(Len(args), 1, ref)
    ELSE IF IsNullish(args[1]) THEN Throw
    ELSE IF args[1].type # ARRAY_OBJ THEN MustBeArray("rest", args[1], ref)
    ELSE IF Len(args[1].elems) > 0 THEN ArrayObject(Tail(args[1].elems), ref)
    ELSE NullObject(ref)

\* arr.elements.push(args[1]); return arr: property test of push
BuiltinPushInPlace(args, ref) == [args[1] EXCEPT !.elems = Append(@, args[2])]

BuiltinPush(args, ref) ==
    IF Len(args) # 2 THEN WrongNumberOfArguments(Len(args), 2, ref)
    ELSE IF IsNullish(args[1]) THEN Throw
    ELSE IF args[1].type # ARRAY_OBJ THEN MustBeArray("push", args[1], ref)
    ELSE ArrayObject(Append(args[1].elems, args[2]), ref)

\* puts and write: console.log(arg.inspect()) for every argument
BuiltinPuts(args, ref) ==
    IF \E i \in 1..Len(args) : InspectThrows(args[i]) THEN Throw
    ELSE NullObject(ref)

\* builtinObj.fn(...args)
ApplyBuiltin(name, args, ref) ==
    CASE name = "len" -> BuiltinLen(args, ref)
      [] name = "first" -> BuiltinFirst(args, ref)
      [] name = "last" -> BuiltinLast(args, ref)
      [] name = "rest" -> BuiltinRest(args, ref)
      [] name = "push" -> BuiltinPush(args, ref)
      [] name \in {"puts", "write"} -> BuiltinPuts(args, ref)

----------------------------------------------------------------------------
(* The recursive evaluator (evaluator/evaluator.ts) *)

\* evalProgram and evalBlockStatement: the results that end the loop
IsReturnValue(o) == ~IsNullish(o) /\ o.type = RETURN_VALUE_OBJ
\* a loop that stops at errors only
ProgramStopsOnError(o) == ~IsNullish(o) /\ o.type = ERROR_OBJ

ProgramStops(o) == ~IsNullish(o) /\ o.type \in {RETURN_VALUE_OBJ, ERROR_OBJ}
BlockStops(o) == o.type \in {RETURN_VALUE_OBJ, ERROR_OBJ}

RECURSIVE evalNode(_, _, _)
RECURSIVE evalDispatch(_, _, _)
RECURSIVE evalBlockStatement(_, _, _, _, _)
RECURSIVE evalExpressions(_, _, _, _, _)
RECURSIVE evalHashLiteral(_, _, _, _, _)
RECURSIVE evalIfExpression(_, _, _)
RECURSIVE applyFunction(_, _, _)

\* evalNode, with the call and its result recorded in the history
evalNode(node, env, st) ==
    LET st1 == [st EXCEPT !.depth = @ + 1,
                    !.log = Append(@, Ev("enter", st.depth + 1, node, <<>>, env, <<>>))]
        r == evalDispatch(node, env, st1)
    IN R(r.v, [r.st EXCEPT !.depth = @ - 1,
                    !.log = Append(@, Ev("exit", st.depth + 1, node, <<r.v>>, env, <<>>))])

\* the loop of evalBlockStatement from statement i on; result.type() raises
\* a TypeError when a statement evaluated to undefined
evalBlockStatement(statements, i, env, st, last) ==
    IF i > Len(statements) THEN R(last, st)
    ELSE LET r == evalNode(statements[i], env, st) IN
         IF IsThrow(r.v) THEN r
         ELSE IF r.v.type = "undefined" THEN R(Throw, r.st)
         ELSE IF r.v.type # "null" /\ BlockStops(r.v) THEN r
         ELSE evalBlockStatement(statements, i + 1, env, r.st, r.v)

\* the loop of evalExpressions from expression i on: [vals, st, out] with
\* out = "ok", or "error" and vals = <<the error>>, or "throw" and vals =
\* <<the exception>>
evalExpressions(exps, i, env, st, acc) ==
    IF i > Len(exps) THEN [vals |-> acc, st |-> st, out |-> "ok"]
    ELSE LET r == evalNode(exps[i], env, st) IN
         CASE Chk(r.v) = "throw" -> [vals |-> <<Raised(r.v)>>, st |-> r.st, out |-> "throw"]
           [] Chk(r.v) = "error" -> [vals |-> <<r.v>>, st |-> r.st, out |-> "error"]
           [] OTHER -> evalExpressions(exps, i + 1, env, r.st, Append(acc, r.v))

\* the loop of evalHashLiteral from pair i on; pairs is hash.pairs so far
evalHashLiteral(kids, i, env, st, pairs) ==
    IF 2 * i > Len(kids)
    THEN R(HashObject(pairs, st.next), Alloc(st))
    ELSE LET k == evalNode(kids[2 * i - 1], env, st) IN
         CASE Chk(k.v) = "throw" -> R(Raised(k.v), k.st)
           [] Chk(k.v) = "error" -> k
           [] OTHER ->
                LET keyed == Note(k.st, "key", kids[2 * i - 1], <<k.v>>, env) IN
                CASE IsNullish(k.v) -> R(Throw, keyed)
                  [] ~isHashable(k.v) ->
                        R(newError("unusable as hash key: " \o k.v.type, keyed.next),
                          Alloc(keyed))
                  [] OTHER ->
                        LET v == evalNode(kids[2 * i], env, keyed) IN
                        CASE Chk(v.v) = "throw" -> R(Raised(v.v), v.st)
                          [] Chk(v.v) = "error" -> v
                          [] OTHER -> evalHashLiteral(kids, i + 1, env, v.st,
                                                      PairsSet(pairs, k.v, v.v))

\* an evalIfExpression that evaluates the chosen block in a new environment
\* enclosed by env
evalIfExpressionOwnScope(ie, env, st) ==
    LET c == evalNode(ie.kids[1], env, st) IN
    CASE Chk(c.v) = "throw" -> R(Raised(c.v), c.st)
      [] Chk(c.v) = "error" -> c
      [] OTHER ->
            LET st1 == Note(c.st, "truthy", ie,
                            <<c.v, nativeBoolToBooleanObject(isTruthy(c.v))>>, env)
                st2 == [st1 EXCEPT !.envs = Append(@, Environment(env)),
                                   !.lex = Append(@, env)]
                blockEnv == Len(st2.envs)
            IN
            IF isTruthy(c.v) THEN evalNode(ie.kids[2], blockEnv, st2)
            ELSE IF Len(ie.kids) > 2 THEN evalNode(ie.kids[3], blockEnv, st2)
            ELSE R(NULL, st1)

evalIfExpression(ie, env, st) ==
    LET c == evalNode(ie.kids[1], env, st) IN
    CASE Chk(c.v) = "throw" -> R(Raised(c.v), c.st)
      [] Chk(c.v) = "error" -> c
      [] OTHER ->
            LET st1 == Note(c.st, "truthy", ie,
                            <<c.v, nativeBoolToBooleanObject(isTruthy(c.v))>>, env) IN
            IF isTruthy(c.v) THEN evalNode(ie.kids[2], env, st1)
            ELSE IF Len(ie.kids) > 2 THEN evalNode(ie.kids[3], env, st1)
            ELSE R(NULL, st1)

\* no callee is callable: property test of the application
applyFunctionNotCallable(func, args, st) ==
    R(newError("not a function: " \o func.type, st.next), Alloc(st))

\* applyFunction(func, args); st.sp counts the host stack frames in use
applyFunction(func, args, st) ==
    IF IsNullish(func) THEN R(Throw, st)
    ELSE IF func.type = FUNCTION_OBJ THEN
        IF st.sp >= MaxCallDepth THEN R(StackExhausted, st)
        ELSE
        LET envs1 == extendFunctionEnv(func, args, st.envs)
            extendedEnv == Len(envs1)
            st1 == [st EXCEPT !.envs = envs1, !.sp = @ + 1,
                        !.lex = Append(@, func.env),
                        !.log = Append(@, Ev("call", st.depth, func.body, <<func>> \o args,
                                             extendedEnv, st.envs))]
            evaluated == evalNode(func.body, extendedEnv, st1)
            st2 == [evaluated.st EXCEPT !.sp = @ - 1,
                        !.log = Append(@, Ev("return", st.depth, func.body,
                                             <<evaluated.v>>, extendedEnv, evaluated.st.envs))]
        IN IF IsThrow(evaluated.v) THEN R(evaluated.v, st2)
           ELSE R(unwrapReturnValue(evaluated.v), st2)
    ELSE IF func.type = BUILTIN_OBJ
        THEN LET res == ApplyBuiltin(func.str, args, st.next) IN
             R(res, Alloc(Note(st, "builtin", NilNode, <<func, res>> \o args, 0)))
    ELSE R(newError("not a function: " \o func.type, st.next), Alloc(st))

evalDispatch(node, env, st) ==
    CASE node.kind = "nil" -> R(NoValue, st)
      [] node.kind = "ExpressionStatement" -> evalNode(node.kids[1], env, st)
      [] node.kind = "BlockStatement" ->
            evalBlockStatement(node.kids, 1, env, st, NoValue)
      [] node.kind = "ReturnStatement" ->
            LET val == evalNode(node.kids[1], env, st) IN
            CASE Chk(val.v) = "throw" -> R(Raised(val.v), val.st)
              [] Chk(val.v) = "error" -> val
              [] OTHER -> R(ReturnValue(val.v, val.st.next), Alloc(val.st))
      [] node.kind = "LetStatement" ->
            LET val == evalNode(node.kids[1], env, st) IN
            CASE Chk(val.v) = "throw" -> R(Raised(val.v), val.st)
              [] Chk(val.v) = "error" -> val
              [] OTHER ->
                    LET envs1 == EnvSet(val.st.envs, env, node.tok, val.v) IN
                    R(val.v, [val.st EXCEPT !.envs = envs1,
                                !.log = @ \o <<Ev("set", st.depth, node, <<val.v>>, env,
                                                  val.st.envs),
                                               Ev("bound", st.depth, node, <<val.v>>, env,
                                                  envs1)>>])
      [] node.kind = "IntegerLiteral" ->
            R(IntegerObject(JsInt(node.num), st.next), Alloc(st))
      [] node.kind = "StringLiteral" -> R(StringObject(node.tok, st.next), Alloc(st))
      [] node.kind = "BooleanLiteral" -> R(nativeBoolToBooleanObject(node.num = 1), st)
      [] node.kind = "PrefixExpression" ->
            LET right == evalNode(node.kids[1], env, st) IN
            CASE Chk(right.v) = "throw" -> R(Raised(right.v), right.st)
              [] Chk(right.v) = "error" -> right
              [] OTHER ->
                    LET res == evalPrefixExpression(node.tok, right.v, right.st.next) IN
                    R(res, Alloc(Note(right.st, "prefix", node, <<right.v, res>>, env)))
      [] node.kind = "InfixExpression" ->
            LET left == evalNode(node.kids[1], env, st) IN
            CASE Chk(left.v) = "throw" -> R(Raised(left.v), left.st)
              [] Chk(left.v) = "error" -> left
              [] OTHER ->
                    LET right == evalNode(node.kids[2], env, left.st) IN
                    CASE Chk(right.v) = "throw" -> R(Raised(right.v), right.st)
                      [] Chk(right.v) = "error" -> right
                      [] OTHER ->
                            LET res == evalInfixExpression(node.tok, left.v, right.v,
                                                           right.st.next)
                            IN R(res, Alloc(Note(right.st, "infix", node,
                                                 <<left.v, right.v, res>>, env)))
      [] node.kind = "IfExpression" -> evalIfExpression(node, env, st)
      [] node.kind = "Identifier" ->
            LET val == evalIdentifier(node, env, st, st.next) IN
            R(val, Alloc([st EXCEPT
                            !.log = Append(@, Ev("ident", st.depth, node, <<val>>, env,
                                                 st.envs))]))
      [] node.kind = "FunctionLiteral" ->
            R(FunctionObject([i \in 1..(Len(node.kids) - 1) |-> node.kids[i + 1].tok],
                             node.kids[1], env, st.next), Alloc(st))
      [] node.kind = "CallExpression" ->
            LET func == evalNode(node.kids[1], env, st) IN
            CASE Chk(func.v) = "throw" -> R(Raised(func.v), func.st)
              [] Chk(func.v) = "error" -> func
              [] OTHER ->
                    LET args == evalExpressions(Tail(node.kids), 1, env, func.st, <<>>) IN
                    CASE args.out = "throw" -> R(args.vals[1], args.st)
                      [] args.out = "error" -> R(args.vals[1], args.st)
                      [] OTHER -> applyFunction(func.v, args.vals, args.st)
      [] node.kind = "ArrayLiteral" ->
            LET elements == evalExpressions(node.kids, 1, env, st, <<>>) IN
            CASE elements.out = "throw" -> R(elements.vals[1], elements.st)
              [] elements.out = "error" -> R(elements.vals[1], elements.st)
              [] OTHER -> R(ArrayObject(elements.vals, elements.st.next), Alloc(elements.st))
      [] node.kind = "IndexExpression" ->
            LET left == evalNode(node.kids[1], env, st) IN
            CASE Chk(left.v) = "throw" -> R(Raised(left.v), left.st)
              [] Chk(left.v) = "error" -> left
              [] OTHER ->
                    LET index == evalNode(node.kids[2], env, left.st) IN
                    CASE Chk(index.v) = "throw" -> R(Raised(index.v), index.st)
                      [] Chk(index.v) = "error" -> index
                      [] OTHER ->
                            LET res == evalIndexExpression(left.v, index.v, index.st.next)
                            IN R(res, Alloc(Note(index.st, "index", node,
                                                 <<left.v, index.v, res>>, env)))
      [] node.kind = "HashLiteral" -> evalHashLiteral(node.kids, 1, env, st, <<>>)
      [] OTHER -> R(NoValue, st)

----------------------------------------------------------------------------
(* Programs the evaluator is run on *)

IntL(n) == IntLit(ToString(n), n)
X == Ident("x")
Y == Ident("y")

\* let newAdder = fn(x) { fn(y) { x + y } };
LetNewAdder ==
    Let("newAdder", Fn(<<X>>, Block(<<ExprStmt(Fn(<<Y>>, Block(<<ExprStmt(Infix(X, "+", Y))>>)))>>)))
\* let addTwo = newAdder(2);
LetAddTwo == Let("addTwo", Call(Ident("newAdder"), <<IntL(2)>>))
\* addTwo(3)
CallAddTwo == ExprStmt(Call(Ident("addTwo"), <<IntL(3)>>))
\* let g = fn() { x };
LetG == Let("g", Fn(<<>>, Block(<<ExprStmt(X)>>)))
\* let h = fn(x) { g() };
LetH == Let("h", Fn(<<X>>, Block(<<ExprStmt(Call(Ident("g"), <<>>))>>)))
\* h(1)
CallH == ExprStmt(Call(Ident("h"), <<IntL(1)>>))
\* let x = 5;
LetX == Let("x", IntL(5))
\* let f = fn() { let x = 10; x };
LetF == Let("f", Fn(<<>>, Block(<<Let("x", IntL(10)), ExprStmt(X)>>)))
\* f()
CallF == ExprStmt(Call(Ident("f"), <<>>))
\* x
ReadX == ExprStmt(X)
\* return x;
ReturnX == Return(X)

ScenarioPool ==
    {LetNewAdder, LetAddTwo, CallAddTwo, LetG, LetH, CallH, LetX, LetF, CallF, ReadX,
     ReturnX}

\* the sequences of at most n statements of the pool
RECURSIVE SeqsUpTo(_, _)
SeqsUpTo(S, n) ==
    IF n = 0 THEN {<<>>}
    ELSE LET shorter == SeqsUpTo(S, n - 1) IN
         shorter \cup {Append(p, s) : p \in {q \in shorter : Len(q) = n - 1}, s \in S}

\* Blocks that hold one integer statement
One == Block(<<ExprStmt(IntL(1))>>)
Two == Block(<<ExprStmt(IntL(2))>>)

\* if (false) { 1 }: an if without alternative whose condition is false
IfWithoutAlternative == If(BoolLit(FALSE), One)
\* fn() { }(): a call that falls through an empty body
FallThrough == Call(Fn(<<>>, Block(<<>>)), <<>>)
\* first([]), last([]), rest([]), puts(1)
FirstOfEmpty == Call(Ident("first"), <<ArrayLit(<<>>)>>)
LastOfEmpty == Call(Ident("last"), <<ArrayLit(<<>>)>>)
RestOfEmpty == Call(Ident("rest"), <<ArrayLit(<<>>)>>)
PutsOne == Call(Ident("puts"), <<IntL(1)>>)

\* return in a function body, under wrappers: "if" nests the statement in
\* the block of an if statement, "bang" in the block of an if expression
\* that is the operand of !
RECURSIVE Wrapped(_, _)
Wrapped(s, wrappers) ==
    IF wrappers = <<>> THEN s
    ELSE LET inner == Wrapped(s, Tail(wrappers)) IN
         IF Head(wrappers) = "if"
         THEN ExprStmt(If(BoolLit(TRUE), Block(<<inner, ExprStmt(IntL(8))>>)))
         ELSE ExprStmt(Prefix("!", If(BoolLit(TRUE), Block(<<inner>>))))

\* fn() { <wrapped return 1>; 9 }, fn() { }, fn() { 9 },
\* fn() { fn() { return 1 }(); 9 }
ReturnBodies ==
    {Block(<<Wrapped(Return(IntL(1)), w), ExprStmt(IntL(9))>>) :
        w \in SeqsUpTo({"if", "bang"}, 2)}
    \cup {Block(<<>>), Block(<<ExprStmt(IntL(9))>>),
          Block(<<ExprStmt(Call(Fn(<<>>, Block(<<Return(IntL(1))>>)), <<>>)),
                  ExprStmt(IntL(9))>>)}

\* fn() { body }(); 4
ReturnPrograms == {<<ExprStmt(Call(Fn(<<>>, b), <<>>)), ExprStmt(IntL(4))>> : b \in ReturnBodies}

\* one composite node of every kind over operands that are an unbound
\* identifier (u), an integer (1) and a failing prefix expression (-true)
U == Ident("u")
ErrOperands == {U, IntL(1), Prefix("-", BoolLit(TRUE))}
ErrorStatements ==
    {ExprStmt(Prefix(op, e)) : op \in {"!", "-"}, e \in ErrOperands}
    \cup {ExprStmt(Infix(l, "+", r)) : l \in ErrOperands, r \in ErrOperands}
    \cup {ExprStmt(IfElse(c, One, Two)) : c \in ErrOperands}
    \cup {ExprStmt(Call(f, <<a, b>>)) :
            f \in {Ident("push"), U}, a \in {ArrayLit(<<>>), U}, b \in ErrOperands}
    \cup {ExprStmt(ArrayLit(<<a, b>>)) : a \in ErrOperands, b \in ErrOperands}
    \cup {ExprStmt(HashLit(<<IntL(2), IntL(2), k, v>>)) : k \in ErrOperands, v \in ErrOperands}
    \cup {ExprStmt(Index(ArrayLit(<<l>>), i)) : l \in ErrOperands, i \in ErrOperands}
    \cup {Let("z", e) : e \in ErrOperands}
    \cup {Return(e) : e \in ErrOperands}
ErrorPrograms == {<<s, ExprStmt(Ident("z"))>> : s \in ErrorStatements}

\* !v and if (v) { 1 } else { 2 } for values v of every origin
TruthProducers ==
    {IntL(0), IntL(1), BoolLit(TRUE), BoolLit(FALSE), StrLit(""), ArrayLit(<<>>),
     IfWithoutAlternative, FallThrough, Index(ArrayLit(<<IntL(1)>>), IntL(5)),
     FirstOfEmpty, LastOfEmpty, RestOfEmpty, PutsOne}
TruthPrograms ==
    {<<ExprStmt(Prefix("!", v))>> : v \in TruthProducers}
    \cup {<<ExprStmt(IfElse(v, One, Two))>> : v \in TruthProducers}

\* let a = v; let b = w; l op r with l, r among a, b and op among ==, !=
EqValues ==
    {ArrayLit(<<IntL(1)>>), HashLit(<<>>), Fn(<<>>, Block(<<>>)), Ident("len"),
     BoolLit(TRUE), BoolLit(FALSE), IfWithoutAlternative, FirstOfEmpty, IntL(1),
     StrLit("a")}
EqualityPrograms ==
    {<<Let("a", v), Let("b", w), ExprStmt(Infix(Ident(l), op, Ident(r)))>> :
        v \in EqValues, w \in EqValues, l \in {"a", "b"}, r \in {"a", "b"},
        op \in {"==", "!="}}

\* [..][i] for arrays of 0, 1 and 2 elements and the indices 0, 1, 2, -1,
\* -0, 1 / 0, -1 / 0 and 0 / 0
IndexValues ==
    {IntL(0), IntL(1), IntL(2), Prefix("-", IntL(1)), Prefix("-", IntL(0)),
     Infix(IntL(1), "/", IntL(0)), Infix(Prefix("-", IntL(1)), "/", IntL(0)),
     Infix(IntL(0), "/", IntL(0))}
ArrayIndexPrograms ==
    {<<ExprStmt(Index(ArrayLit(es), i))>> :
        es \in {<<>>, <<IntL(5)>>, <<IntL(5), StrLit("a")>>}, i \in IndexValues}

\* {k1: 1}[k] and {k1: 1, k2: 2}[k] for keys of the three hashable kinds;
\* the strings "Aa" and "BB" have the same hash number
HashKeyValues ==
    {IntL(1), IntL(2), BoolLit(TRUE), BoolLit(FALSE), StrLit("a"), StrLit("b"),
     StrLit("Aa"), StrLit("BB")}
HashIndexPrograms ==
    {<<ExprStmt(Index(HashLit(<<k1, IntL(1)>>), k))>> :
        k1 \in HashKeyValues, k \in HashKeyValues}
    \cup {<<ExprStmt(Index(HashLit(<<k1, IntL(1), k2, IntL(2)>>), k))>> :
            k1 \in HashKeyValues, k2 \in HashKeyValues, k \in HashKeyValues}

\* {k: 1}, {1: 1, k: 2} and {1: 1}[k] for keys k of the kinds that are not
\* hashable: Null (the singleton and a builtin's), Array, Hash, Function,
\* Builtin and ReturnValue
UnhashableValues ==
    {IfWithoutAlternative, FirstOfEmpty, ArrayLit(<<IntL(1)>>), HashLit(<<>>),
     Fn(<<>>, Block(<<>>)), Ident("len"), If(BoolLit(TRUE), Block(<<Return(IntL(1))>>))}
UnusableKeyPrograms ==
    {<<ExprStmt(HashLit(<<k, IntL(1)>>))>> : k \in UnhashableValues}
    \cup {<<ExprStmt(HashLit(<<IntL(1), IntL(1), k, IntL(2)>>))>> : k \in UnhashableValues}
    \cup {<<ExprStmt(Index(HashLit(<<IntL(1), IntL(1)>>), k))>> : k \in UnhashableValues}

\* if (c) { b } and if (c) { b } else { b2 } for truthy and falsy conditions
\* and blocks that are empty, an expression, a let or a nested if
IfConditions == {BoolLit(TRUE), BoolLit(FALSE), IntL(0), IfWithoutAlternative}
IfBlocks ==
    {Block(<<>>), One, Block(<<Let("x", IntL(1))>>),
     Block(<<ExprStmt(IfWithoutAlternative)>>)}
IfPrograms ==
    {<<ExprStmt(If(c, b))>> : c \in IfConditions, b \in IfBlocks}
    \cup {<<ExprStmt(IfElse(c, b, b2))>> : c \in IfConditions, b \in IfBlocks, b2 \in IfBlocks}

\* if (true) { return 1 } where a value is expected: returned, bound by a
\* let, an array element, a hash value, an operand of + and of an index, an
\* argument of a builtin and of a function; at top level and in a function
ReturnInIf == If(BoolLit(TRUE), Block(<<Return(IntL(1))>>))
ReturnAsValue ==
    {Return(ReturnInIf), Let("x", ReturnInIf), ExprStmt(ArrayLit(<<ReturnInIf>>)),
     ExprStmt(HashLit(<<IntL(1), ReturnInIf>>)), ExprStmt(Infix(IntL(1), "+", ReturnInIf)),
     ExprStmt(Index(ArrayLit(<<IntL(1)>>), ReturnInIf)),
     ExprStmt(Call(Ident("len"), <<ReturnInIf>>)),
     ExprStmt(Call(Fn(<<X>>, Block(<<ExprStmt(X)>>)), <<ReturnInIf>>)),
     Return(IntL(1)), ExprStmt(ReturnInIf)}
ReturnAsValuePrograms ==
    {<<s, ExprStmt(IntL(4))>> : s \in ReturnAsValue}
    \cup {<<ExprStmt(Call(Fn(<<>>, Block(<<s, ExprStmt(IntL(9))>>)), <<>>))>> :
            s \in ReturnAsValue}

\* a let inside the block of an if, at the root and in the body of a called
\* function, and the name read after the if
LetXIn(c) ==
    IfElse(BoolLit(c), Block(<<Let("x", IntL(1))>>), Block(<<Let("x", IntL(2))>>))
BlockLetBodies ==
    {<<ExprStmt(LetXIn(c)), ExprStmt(X)>> : c \in BOOLEAN}
    \cup {<<ExprStmt(If(BoolLit(TRUE), Block(<<ExprStmt(LetXIn(TRUE))>>))), ExprStmt(X)>>,
          <<ExprStmt(ArrayLit(<<LetXIn(FALSE), X>>))>>}
BlockLetPrograms ==
    {pre \o body \o post : pre \in {<<>>, <<Let("x", IntL(5))>>},
                            body \in BlockLetBodies, post \in {<<>>, <<ExprStmt(X)>>}}
    \cup {pre \o <<ExprStmt(Call(Fn(params, Block(body)), <<IntL(7)>>)), ExprStmt(X)>> :
            pre \in {<<>>, <<Let("x", IntL(5))>>}, params \in {<<>>, <<X>>},
            body \in BlockLetBodies}

\* identifiers looked up at the root and inside one or two function calls,
\* where the root, a parameter or a let of the body may bind the name, a
\* builtin's name included; a call may leave its parameter without argument
LookedUpNames == {"len", "a", "zz"}
RootBindings == {<<>>, <<Let("len", IntL(1))>>, <<Let("a", IntL(2))>>}
BodyBindings == {<<>>, <<Let("len", IntL(4))>>}
LookupsOf(name) ==
    {Ident(name)}
        \cup {Call(Fn(<<Ident(p)>>, Block(lets \o <<ExprStmt(Ident(name))>>)), args) :
                p \in {"len", "a", "b"}, lets \in BodyBindings,
                args \in {<<IntL(3)>>, <<>>}}
        \cup {Call(Fn(<<Ident(p)>>, Block(<<ExprStmt(Call(Fn(<<Ident("b")>>,
                        Block(<<ExprStmt(Ident(name))>>)), <<IntL(5)>>))>>)), <<IntL(3)>>) :
                p \in {"len", "a"}}
IdentifierPrograms ==
    {root \o <<ExprStmt(e)>> : root \in RootBindings,
                              e \in UNION {LookupsOf(name) : name \in LookedUpNames}}

\* the builtins that take arrays called with no, one, two and three
\* arguments of several kinds
BuiltinArguments == {IntL(1), StrLit("a"), ArrayLit(<<IntL(5)>>)}
BuiltinCallPrograms ==
    {<<ExprStmt(Call(Ident(name), args))>> :
        name \in {"len", "first", "last", "rest", "push"},
        args \in SeqsUpTo(BuiltinArguments, 2) \cup {<<IntL(1), IntL(1), IntL(1)>>}}

\* values of every kind called and indexed
Applicands ==
    {IntL(1), BoolLit(TRUE), StrLit("a"), IfWithoutAlternative, ArrayLit(<<IntL(1)>>),
     HashLit(<<>>), Fn(<<>>, Block(<<>>)), Ident("len")}
MisappliedPrograms ==
    {<<ExprStmt(Call(v, <<>>))>> : v \in Applicands}
        \cup {<<ExprStmt(Index(v, IntL(0)))>> : v \in Applicands}

\* calls of a function, a builtin, an integer and an unbound name with no,
\* one and two arguments, some of which are unbound names
Callees ==
    {Fn(<<Ident("a"), Ident("b")>>, Block(<<ExprStmt(Ident("a"))>>)),
     Fn(<<Ident("a")>>, Block(<<ExprStmt(Ident("a"))>>)), Ident("len"), IntL(1), U}
CallPrograms ==
    {<<ExprStmt(Call(f, args))>> :
        f \in Callees, args \in SeqsUpTo({IntL(1), StrLit("a"), Ident("v")}, 2)}

Programs ==
    SeqsUpTo(ScenarioPool, MaxStmts) \cup ReturnPrograms \cup ErrorPrograms
        \cup TruthPrograms \cup EqualityPrograms \cup ArrayIndexPrograms
        \cup HashIndexPrograms \cup UnusableKeyPrograms \cup IfPrograms
        \cup ReturnAsValuePrograms \cup IdentifierPrograms \cup BuiltinCallPrograms
        \cup MisappliedPrograms \cup CallPrograms \cup BlockLetPrograms

----------------------------------------------------------------------------
(* evalProgram as a state machine: one action per iteration of its loop *)

InitHeap == [envs |-> <<Environment(0)>>, next |-> FirstRef, lex |-> <<0>>]

\* the parser and evalInfixExpression are idle while a program is evaluated
ParserIdle ==
    /\ tokens = <<>>
    /\ ps = <<>>
    /\ stmts = <<>>
    /\ ppc = "idle"

InfixIdle ==
    /\ infixIn = <<>>
    /\ infixOut = NoValue

\* execute has not returned; the environment is a new one
NoOutcome == [success |-> FALSE, value |-> NoValue, errors |-> <<>>, program |-> NilNode]
ExecuteIdle ==
    /\ outcome = NoOutcome
    /\ given = EmptyStore

\* no builtin is being called on an array
NoCall == [name |-> "", args |-> <<>>, res |-> NoValue, before |-> <<>>]
BuiltinsIdle ==
    /\ arr = <<>>
    /\ ret = NoCall
    /\ calls = 0

Init ==
    /\ program \in Programs
    /\ stmtNo = 1
    /\ result = NoValue
    /\ pc = "run"
    /\ heap = InitHeap
    /\ log = <<>>
    /\ trace = <<>>
    /\ ParserIdle
    /\ InfixIdle
    /\ ExecuteIdle
    /\ BuiltinsIdle

\* evalNode(statement, env) and the two checks that follow it in the loop
EvalStatement ==
    /\ pc = "run"
    /\ stmtNo <= Len(program)
    /\ LET st0 == [envs |-> heap.envs, next |-> heap.next, lex |-> heap.lex,
                   sp |-> 0, depth |-> 0, log |-> <<>>]
           r == evalNode(program[stmtNo], RootEnv, st0)
       IN /\ heap' = [envs |-> r.st.envs, next |-> r.st.next, lex |-> r.st.lex]
          /\ log' = r.st.log
          /\ trace' = Append(trace, [node |-> program[stmtNo], res |-> r.v])
          /\ IF IsThrow(r.v)
             THEN result' = r.v /\ pc' = "threw" /\ stmtNo' = stmtNo
             ELSE IF IsReturnValue(r.v) /\ ProgramStops(r.v)
             THEN result' = r.v.elems[1] /\ pc' = "done" /\ stmtNo' = stmtNo
             ELSE IF ProgramStops(r.v)
             THEN result' = r.v /\ pc' = "done" /\ stmtNo' = stmtNo
             ELSE result' = r.v /\ pc' = "run" /\ stmtNo' = stmtNo + 1
    /\ UNCHANGED <<program, tokens, ps, stmts, ppc, infixIn, infixOut,
                   execVars, builtinVars>>

\* the loop is exhausted: return result
EvalProgramEnd ==
    /\ pc = "run"
    /\ stmtNo > Len(program)
    /\ pc' = "done"
    /\ UNCHANGED <<program, stmtNo, result, heap, log, trace,
                   tokens, ps, stmts, ppc, infixIn, infixOut, execVars, builtinVars>>

Next == EvalStatement \/ EvalProgramEnd

Spec == Init /\ [][Next]_vars

----------------------------------------------------------------------------
(* evalInfixExpression applied to one operator and two operands *)

InfixOperators == {"+", "-", "*", "/", "<", ">", "==", "!="}

\* the values of IntegerObjects: the integers of the range and the results
\* of divisions by zero
JsNumbers ==
    {JsInt(n) : n \in (-MaxAbs)..MaxAbs}
        \cup {JsNum("negzero", 0), JsNum("inf", 0), JsNum("neginf", 0), JsNaN}

\* operands of every kind; the objects created for a call carry ref
OperandsAt(ref) ==
    {IntegerObject(x, ref) : x \in JsNumbers}
        \cup {StringObject(v, ref) : v \in {"", "a", "b"}}
        \cup {TRUEOBJ, FALSEOBJ, NULL, BuiltinObject("len"),
              ArrayObject(<<>>, ref), HashObject(<<>>, ref),
              FunctionObject(<<>>, Block(<<>>), RootEnv, ref),
              ReturnValue(NULL, ref)}

EvalIdle ==
    /\ program = <<>>
    /\ stmtNo = 1
    /\ result = NoValue
    /\ heap = InitHeap
    /\ log = <<>>
    /\ trace = <<>>

InitInfix ==
    /\ infixIn \in InfixOperators \X OperandsAt(FirstRef) \X OperandsAt(FirstRef + 1)
    /\ infixOut = NoValue
    /\ pc = "infix"
    /\ EvalIdle
    /\ ParserIdle
    /\ ExecuteIdle
    /\ BuiltinsIdle

EvalInfix ==
    /\ pc = "infix"
    /\ infixOut' = evalInfixExpression(infixIn[1], infixIn[2], infixIn[3], FirstRef + 2)
    /\ pc' = "done"
    /\ UNCHANGED <<program, stmtNo, result, heap, log, trace,
                   tokens, ps, stmts, ppc, infixIn, execVars, builtinVars>>

NextInfix == EvalInfix

SpecInfix == InitInfix /\ [][NextInfix]_vars

----------------------------------------------------------------------------
(* parseProgram as a state machine: one action per iteration of its loop,  *)
(* run on the operator expressions of at most MaxTokens tokens             *)

AtomTokens == {Tok("IDENT", "a"), Tok("INT", "1")}
PrefixTokens == {Tok("!", "!"), Tok("-", "-")}
InfixTokens == {Tok(t, t) : t \in InfixOperators}

\* prefix operators followed by an identifier or an integer: n tokens
RECURSIVE OperandsOfLen(_)
OperandsOfLen(n) ==
    IF n = 1 THEN {<<t>> : t \in AtomTokens}
    ELSE {<<o>> \o rest : o \in PrefixTokens, rest \in OperandsOfLen(n - 1)}

\* operands separated by infix operators: n tokens
RECURSIVE ExpressionsOfLen(_)
ExpressionsOfLen(n) ==
    OperandsOfLen(n)
        \cup UNION {{e \o <<op>> \o last : e \in ExpressionsOfLen(n - 1 - k),
                                           op \in InfixTokens,
                                           last \in OperandsOfLen(k)} : k \in 1..(n - 2)}

ExpressionInputs == UNION {ExpressionsOfLen(n) : n \in 1..MaxTokens}

InitParse ==
    /\ tokens \in ExpressionInputs
    /\ ps = NewParser(tokens)
    /\ stmts = <<>>
    /\ ppc = "parse"
    /\ pc = "idle"
    /\ EvalIdle
    /\ InfixIdle
    /\ ExecuteIdle
    /\ BuiltinsIdle

\* one iteration of the while loop of parseProgram
ParseStatement ==
    /\ ppc = "parse"
    /\ ~ps.stuck
    /\ ~curTokenIs(ps, "EOF")
    /\ LET stmt == parseStatement(ps) IN
       /\ stmts' = IF IsNil(stmt.node) THEN stmts ELSE Append(stmts, stmt.node)
       /\ ps' = IF Consumed(ps, nextToken(stmt.p)) THEN Dropped(stmt, nextToken(stmt.p))
                ELSE Diverged(stmt.p)
    /\ UNCHANGED <<program, stmtNo, result, pc, heap, log, trace,
                   tokens, ppc, infixIn, infixOut, execVars, builtinVars>>

\* the loop has met EOF: return program
ParseProgramEnd ==
    /\ ppc = "parse"
    /\ ~ps.stuck
    /\ curTokenIs(ps, "EOF")
    /\ ppc' = "parsed"
    /\ UNCHANGED <<program, stmtNo, result, pc, heap, log, trace,
                   tokens, ps, stmts, infixIn, infixOut, execVars, builtinVars>>

NextParse == ParseStatement \/ ParseProgramEnd

SpecParse == InitParse /\ [][NextParse]_vars

----------------------------------------------------------------------------
(* execute(code, env) of index.ts as a state machine: the parser's loop,   *)
(* the check of the parser's errors, the evaluator's loop, the check of the*)
(* evaluated value, and the catch clause.  pc is "idle" until evaluation   *)
(* starts and "returned" when execute has returned.  The code is given as  *)
(* the token sequence the lexer makes of it.                               *)

MaxChunks == 2      \* statements per executed source text

Sym(t) == Tok(t, t)
Name(n) == Tok("IDENT", n)
Num(text) == Tok("INT", text)
IfTrueEmpty ==
    <<Tok("IF", "if"), Sym("("), Tok("TRUE", "true"), Sym(")"), Sym("{"), Sym("}")>>

\* the statements the executed source texts are made of
ExecuteChunks ==
    { <<Num("5"), Sym(";")>>,                                      \* 5;
      <<Tok("LET", "let"), Name("y"), Sym("="), Num("9"), Sym(";")>>,   \* let y = 9;
      <<Tok("LET", "let"), Name("x"), Sym("="), Num("2"), Sym(";")>>,   \* let x = 2;
      <<Name("x"), Sym(";")>>,                                     \* x;
      <<Name("y"), Sym("+"), Num("1"), Sym(";")>>,                 \* y + 1;
      <<Sym("-"), Tok("TRUE", "true"), Sym(";")>>,                 \* -true;
      <<Tok("RETURN", "return"), Num("3"), Sym(";")>>,             \* return 3;
      <<Tok("LET", "let"), Num("1"), Sym(";")>>,                   \* let 1;
      <<Tok("LET", "let"), Name("x"), Num("5"), Sym(";")>>,        \* let x 5;
      <<Sym("("), Num("1"), Sym(";")>>,                            \* (1;
      <<Num("1"), Sym("+"), Sym(";")>>,                            \* 1 + ;
      IfTrueEmpty \o <<Sym(";")>>,                                 \* if (true) { };
      <<Sym("-")>> \o IfTrueEmpty \o <<Sym(";")>>,                 \* -if (true) { };
      <<Sym("["), Num("1"), Sym("]"), Sym("["), Num("0"), Sym("/"), Num("0"),
        Sym("]"), Sym(";")>>,                                      \* [1][0 / 0];
      <<Tok("LET", "let"), Name("f"), Sym("="), Tok("FUNCTION", "fn"), Sym("("), Sym(")"),
        Sym("{"), Name("f"), Sym("("), Sym(")"), Sym("}"), Sym(";")>>,  \* let f = fn() { f() };
      <<Name("f"), Sym("("), Sym(")"), Sym(";")>> }                \* f();

RECURSIVE ChunksOfLen(_)
ChunksOfLen(n) ==
    IF n = 0 THEN {<<>>}
    ELSE {c \o rest : c \in ExecuteChunks, rest \in ChunksOfLen(n - 1)}

ExecuteInputs == UNION {ChunksOfLen(n) : n \in 1..MaxChunks}

\* the environment execute is given: none (a new one is made), or one in
\* which x is bound
GivenStores == {EmptyStore, ("x" :> IntegerObject(JsInt(5), FirstRef))}

GivenHeap(store) ==
    [envs |-> <<[Environment(0) EXCEPT !.store = store]>>,
     next |-> FirstRef + 1, lex |-> <<0>>]

InitExecute ==
    /\ tokens \in ExecuteInputs
    /\ ps = NewParser(tokens)
    /\ stmts = <<>>
    /\ ppc = "parse"
    /\ pc = "idle"
    /\ given \in GivenStores
    /\ heap = GivenHeap(given)
    /\ program = <<>>
    /\ stmtNo = 1
    /\ result = NoValue
    /\ log = <<>>
    /\ trace = <<>>
    /\ outcome = NoOutcome
    /\ InfixIdle
    /\ BuiltinsIdle

\* always "no parse errors": property test of the check of the parser's errors
hasParseErrorsNever(p) == FALSE

\* parseErrors.length > 0
hasParseErrors(p) == Len(p.errors) > 0

\* always success: property test of the check of the evaluated value
executeResultAlwaysSuccess(evaluated, prog) ==
    [success |-> TRUE, value |-> evaluated, errors |-> <<>>, program |-> prog]

\* the object execute returns for an evaluated value
executeResult(evaluated, prog) ==
    IF ~IsNullish(evaluated) /\ evaluated.type = ERROR_OBJ
    THEN [success |-> FALSE, value |-> evaluated,
          errors |-> <<"ERROR: " \o evaluated.str>>, program |-> prog]
    ELSE [success |-> TRUE, value |-> evaluated, errors |-> <<>>, program |-> prog]

\* the parser reported errors: return them, evaluate nothing
ExecuteParseErrors ==
    /\ ppc = "parsed"
    /\ pc = "idle"
    /\ hasParseErrors(ps)
    /\ outcome' = [success |-> FALSE, value |-> NoValue, errors |-> ps.errors,
                   program |-> NilNode]
    /\ pc' = "returned"
    /\ UNCHANGED <<program, stmtNo, result, heap, log, trace,
                   tokens, ps, stmts, ppc, infixIn, infixOut, given, builtinVars>>

\* no parse error: evalNode(program, env || new Environment())
ExecuteEvaluate ==
    /\ ppc = "parsed"
    /\ pc = "idle"
    /\ ~hasParseErrors(ps)
    /\ program' = stmts
    /\ pc' = "run"
    /\ UNCHANGED <<stmtNo, result, heap, log, trace,
                   tokens, ps, stmts, ppc, infixIn, infixOut, execVars, builtinVars>>

\* evalNode has returned: check the evaluated value and return
ExecuteReturn ==
    /\ ppc = "parsed"
    /\ pc = "done"
    /\ outcome' = executeResult(result, N("Program", "", 0, program))
    /\ pc' = "returned"
    /\ UNCHANGED <<program, stmtNo, result, heap, log, trace,
                   tokens, ps, stmts, ppc, infixIn, infixOut, given, builtinVars>>

\* evalNode has thrown: the catch clause returns the exception's message
ExecuteCatch ==
    /\ ppc = "parsed"
    /\ pc = "threw"
    /\ outcome' = [success |-> FALSE, value |-> NoValue, errors |-> <<result.str>>,
                   program |-> NilNode]
    /\ pc' = "returned"
    /\ UNCHANGED <<program, stmtNo, result, heap, log, trace,
                   tokens, ps, stmts, ppc, infixIn, infixOut, given, builtinVars>>

NextExecute ==
    \/ ParseStatement
    \/ ParseProgramEnd
    \/ ExecuteParseErrors
    \/ ExecuteEvaluate
    \/ EvalStatement
    \/ EvalProgramEnd
    \/ ExecuteReturn
    \/ ExecuteCatch

SpecExecute == InitExecute /\ [][NextExecute]_vars

----------------------------------------------------------------------------
(* The builtins push and rest called on Array objects: on an initial       *)
(* array and on the arrays earlier calls returned, MaxCalls calls at most  *)

MaxCalls == 3       \* calls of push / rest in a row

ElementOne == IntegerObject(JsInt(1), FirstRef)
ElementTwo == IntegerObject(JsInt(2), FirstRef + 1)
InitialArrays ==
    {ArrayObject(elements, FirstRef + 2) :
        elements \in {<<>>, <<ElementOne>>, <<ElementOne, ElementTwo>>,
                      <<ElementTwo, ElementOne>>, <<ElementOne, ElementOne>>}}

\* the second argument of push
PushedValues == {IntegerObject(JsInt(7), FirstRef + 3), TRUEOBJ}

\* the Array objects after a call that returned res: an Array object is
\* what the call left under its identity, a new one is added
ObjectsAfter(objs, res) ==
    IF res.type # ARRAY_OBJ THEN objs
    ELSE IF \E i \in DOMAIN objs : objs[i].ref = res.ref
    THEN [i \in DOMAIN objs |-> IF objs[i].ref = res.ref THEN res ELSE objs[i]]
    ELSE Append(objs, res)

InitBuiltins ==
    /\ arr \in {<<a>> : a \in InitialArrays}
    /\ ret = NoCall
    /\ calls = 0
    /\ pc = "builtins"
    /\ EvalIdle
    /\ ParserIdle
    /\ InfixIdle
    /\ ExecuteIdle

\* builtins.get(name).fn(...args)
CallBuiltin(name, args) ==
    LET res == ApplyBuiltin(name, args, FirstRef + 4 + calls) IN
    /\ arr' = ObjectsAfter(arr, res)
    /\ ret' = [name |-> name, args |-> args, res |-> res, before |-> arr]
    /\ calls' = calls + 1
    /\ UNCHANGED <<program, stmtNo, result, pc, heap, log, trace,
                   tokens, ps, stmts, ppc, infixIn, infixOut, execVars>>

\* push(a, x) for an existing array a
CallPush ==
    /\ pc = "builtins"
    /\ calls < MaxCalls
    /\ \E t \in DOMAIN arr : \E x \in PushedValues : CallBuiltin("push", <<arr[t], x>>)

\* rest(a) for an existing array a
CallRest ==
    /\ pc = "builtins"
    /\ calls < MaxCalls
    /\ \E t \in DOMAIN arr : CallBuiltin("rest", <<arr[t]>>)

NextBuiltins == CallPush \/ CallRest

SpecBuiltins == InitBuiltins /\ [][NextBuiltins]_vars

----------------------------------------------------------------------------
(* parseProgram run on function literals fn ( ... ) { } whose parameter    *)
(* list is any sequence of at most MaxParamTokens tokens                   *)

MaxParamTokens == 3     \* tokens between the parentheses of a function literal

ParamTokens ==
    {Tok("IDENT", "a"), Tok("IDENT", "b"), Tok("INT", "1"), Tok("TRUE", "true"),
     Tok(",", ",")}

RECURSIVE ParamListsOfLen(_)
ParamListsOfLen(n) ==
    IF n = 0 THEN {<<>>}
    ELSE {Append(l, t) : l \in ParamListsOfLen(n - 1), t \in ParamTokens}

\* fn ( params ) { }
FunctionLiteralTokens(params) ==
    <<Tok("FUNCTION", "fn"), Tok("(", "(")>> \o params
        \o <<Tok(")", ")"), Tok("{", "{"), Tok("}", "}")>>

FunctionLiteralInputs ==
    {FunctionLiteralTokens(l) : l \in UNION {ParamListsOfLen(n) : n \in 0..MaxParamTokens}}

InitParseFunction ==
    /\ tokens \in FunctionLiteralInputs
    /\ ps = NewParser(tokens)
    /\ stmts = <<>>
    /\ ppc = "parse"
    /\ pc = "idle"
    /\ EvalIdle
    /\ InfixIdle
    /\ ExecuteIdle
    /\ BuiltinsIdle

SpecParseFunction == InitParseFunction /\ [][NextParse]_vars

----------------------------------------------------------------------------
(* parseProgram run on any token sequence: every sequence of at most       *)
(* MaxAnyTokens tokens, and every text of SampleTexts cut off after any    *)
(* number of its tokens, so that the input ends inside an unclosed block,  *)
(* list, hash, parameter list or call                                      *)

MaxAnyTokens == 3       \* tokens of an arbitrary input

AnyTokens ==
    {Name("a"), Num("1"), Sym("("), Sym(")"), Sym("{"), Sym("}"), Sym("["),
     Sym(","), Sym(":"), Tok("FUNCTION", "fn"), Tok("IF", "if"), Tok("LET", "let")}

RECURSIVE AnyTokensOfLen(_)
AnyTokensOfLen(n) ==
    IF n = 0 THEN {<<>>}
    ELSE {Append(l, t) : l \in AnyTokensOfLen(n - 1), t \in AnyTokens}

SampleTexts ==
    {\* let f = fn(a, b) { return a + "s"; };
     <<Tok("LET", "let"), Name("f"), Sym("="), Tok("FUNCTION", "fn"), Sym("("),
       Name("a"), Sym(","), Name("b"), Sym(")"), Sym("{"), Tok("RETURN", "return"),
       Name("a"), Sym("+"), Tok("STRING", "s"), Sym(";"), Sym("}"), Sym(";")>>,
     \* if (a) { b } else { c }
     <<Tok("IF", "if"), Sym("("), Name("a"), Sym(")"), Sym("{"), Name("b"), Sym("}"),
       Tok("ELSE", "else"), Sym("{"), Name("c"), Sym("}")>>,
     \* { a: 1, "s": [1, a] }
     <<Sym("{"), Name("a"), Sym(":"), Num("1"), Sym(","), Tok("STRING", "s"), Sym(":"),
       Sym("["), Num("1"), Sym(","), Name("a"), Sym("]"), Sym("}")>>,
     \* f(a, [1, a])[1](a)
     <<Name("f"), Sym("("), Name("a"), Sym(","), Sym("["), Num("1"), Sym(","),
       Name("a"), Sym("]"), Sym(")"), Sym("["), Num("1"), Sym("]"), Sym("("),
       Name("a"), Sym(")")>>,
     \* fn(a) { fn(b) { { a: (b) } } }
     <<Tok("FUNCTION", "fn"), Sym("("), Name("a"), Sym(")"), Sym("{"),
       Tok("FUNCTION", "fn"), Sym("("), Name("b"), Sym(")"), Sym("{"), Sym("{"),
       Name("a"), Sym(":"), Sym("("), Name("b"), Sym(")"), Sym("}"), Sym("}"),
       Sym("}")>>}

AnyInputs ==
    UNION {AnyTokensOfLen(n) : n \in 0..MaxAnyTokens}
        \cup UNION {{SubSeq(t, 1, n) : n \in 0..Len(t)} : t \in SampleTexts}

InitParseAny ==
    /\ tokens \in AnyInputs
    /\ ps = NewParser(tokens)
    /\ stmts = <<>>
    /\ ppc = "parse"
    /\ pc = "idle"
    /\ EvalIdle
    /\ InfixIdle
    /\ ExecuteIdle
    /\ BuiltinsIdle

SpecParseAny == InitParseAny /\ [][NextParse]_vars

----------------------------------------------------------------------------
(* Claims *)

Done(p) == pc = "done" /\ program = p

Events(ev) == {i \in DOMAIN log : log[i].ev = ev}

\* the binding of name seen from environment e when the chain is followed
\* along lex, the environments the called functions were defined in
RECURSIVE LexGet(_, _, _, _)
LexGet(envs, lex, e, name) ==
    IF name \in DOMAIN envs[e].store /\ envs[e].store[name].type # "undefined"
    THEN [val |-> envs[e].store[name], ok |-> TRUE]
    ELSE IF lex[e] # 0 THEN LexGet(envs, lex, lex[e], name)
    ELSE [val |-> NoValue, ok |-> FALSE]

\* C2: scoping is lexical.  A function literal captures the environment it
\* is evaluated in; every identifier evaluated anywhere resolves to the
\* binding found along the chain of definition environments (never the
\* caller's); so addTwo(3) gives 5 after newAdder(2) has returned, and g,
\* called from h(1), does not see h's parameter x.
C2_LexicalScoping ==
    /\ \A i \in Events("exit") :
          (log[i].node.kind = "FunctionLiteral" /\ log[i].vals[1].type = FUNCTION_OBJ)
              => log[i].vals[1].env = log[i].env
    /\ \A i \in Events("ident") :
          LET found == LexGet(log[i].snap, heap.lex, log[i].env, log[i].node.tok)
              val == log[i].vals[1]
          IN IF found.ok THEN val = found.val
             ELSE val.type \in {BUILTIN_OBJ, ERROR_OBJ}
    /\ Done(<<LetNewAdder, LetAddTwo, CallAddTwo>>)
          => (result.type = INTEGER_OBJ /\ NumOf(result) = JsInt(5))
    /\ Done(<<LetG, LetH, CallH>>)
          => (result.type = ERROR_OBJ /\ result.str = "identifier not found: x")

C2_Witness ==
    /\ Done(<<LetNewAdder, LetAddTwo, CallAddTwo>>)
    /\ result.type = INTEGER_OBJ
    /\ \E i \in Events("ident") : log[i].node.tok = "x" /\ log[i].env # RootEnv
                                    /\ log[i].vals[1].type = INTEGER_OBJ

\* the environments enclosing e (e itself excluded)
RECURSIVE Ancestors(_, _)
Ancestors(envs, e) ==
    IF envs[e].outer = 0 THEN {} ELSE {envs[e].outer} \cup Ancestors(envs, envs[e].outer)

\* C3: Environment.set writes the local frame only.  Every set leaves the
\* store of every other environment as it was, and when a function call
\* returns the store of every ancestor of the call's environment is what it
\* was when the call began.
C3_SetIsLocal ==
    /\ \A i \in Events("set") :
          /\ log[i + 1].ev = "bound"
          /\ Len(log[i + 1].snap) = Len(log[i].snap)
          /\ \A e \in DOMAIN log[i].snap :
                e # log[i].env => log[i + 1].snap[e] = log[i].snap[e]
    /\ \A j \in Events("return") : \A i \in Events("call") :
          log[i].env = log[j].env =>
              \A a \in Ancestors(log[j].snap, log[j].env) :
                  log[j].snap[a].store = log[i].snap[a].store

C3_Witness ==
    /\ Done(<<LetX, LetF, CallF>>)
    /\ NumOf(heap.envs[RootEnv].store["x"]) = JsInt(5)
    /\ \E e \in DOMAIN heap.envs :
          /\ e # RootEnv
          /\ "x" \in DOMAIN heap.envs[e].store
          /\ NumOf(heap.envs[e].store["x"]) = JsInt(10)

\* a result that is a ReturnValue or an Error
Stops(o) == o.type \in {RETURN_VALUE_OBJ, ERROR_OBJ}

\* C4: evalProgram evaluates the statements in source order and stops at the
\* first one whose result is a ReturnValue or an Error: that statement is
\* the last one evaluated, and the program's result is the returned inner
\* value, respectively the Error.
C4_ProgramStopsAtFirst ==
    /\ Len(trace) <= Len(program)
    /\ \A i \in DOMAIN trace : trace[i].node = program[i]
    /\ \A i \in DOMAIN trace :
          Stops(trace[i].res) =>
              /\ i = Len(trace)
              /\ pc = "done"
              /\ result = IF trace[i].res.type = RETURN_VALUE_OBJ
                          THEN trace[i].res.elems[1] ELSE trace[i].res
    /\ (pc = "done" /\ (trace = <<>> \/ ~Stops(trace[Len(trace)].res)))
          => Len(trace) = Len(program)

C4_Witness ==
    /\ pc = "done"
    /\ Len(trace) < Len(program)
    /\ program[Len(trace) + 1].kind = "LetStatement"
    /\ trace[Len(trace)].res.type = RETURN_VALUE_OBJ
    /\ result.type = INTEGER_OBJ

\* the "return" event of the call whose environment is e
ReturnOf(e) == CHOOSE j \in Events("return") : log[j].env = e

\* the ReturnStatements executed in the environment of a function call
ReturnsInCalls ==
    {t \in Events("exit") : /\ log[t].node.kind = "ReturnStatement"
                            /\ log[t].vals[1].type = RETURN_VALUE_OBJ
                            /\ log[t].env # RootEnv}

\* C5: a return executed at any block-nesting depth inside a function body
\* terminates exactly that call: nothing more of the body is evaluated in the
\* call's environment, the call expression evaluates to the returned value
\* with the wrapper removed, and the caller goes on with its following
\* statements; a body that produces nothing makes the call evaluate to Null.
C5_ReturnEndsTheCall ==
    /\ \A t \in ReturnsInCalls :
          LET j == ReturnOf(log[t].env) IN
          /\ \A k \in (t + 1)..(j - 1) :
                ~(log[k].ev = "enter" /\ log[k].env = log[t].env)
          /\ log[j + 1].ev = "exit"
          /\ log[j + 1].node.kind = "CallExpression"
          /\ log[j + 1].vals[1] = log[t].vals[1].elems[1]
    /\ \A j \in Events("return") :
          log[j].vals[1].type = "null" => log[j + 1].vals[1] = NULL
    /\ (pc = "done" /\ program \in ReturnPrograms) =>
          (Len(trace) = Len(program) /\ NumOf(result) = JsInt(4))

\* a return two blocks deep has ended its call, whose value is the 1 returned
C5_Witness ==
    /\ program = <<ExprStmt(Call(Fn(<<>>, Block(<<Wrapped(Return(IntL(1)), <<"if", "if">>),
                                                   ExprStmt(IntL(9))>>)), <<>>)),
                   ExprStmt(IntL(4))>>
    /\ Len(trace) = 1
    /\ trace[1].res.type = INTEGER_OBJ
    /\ NumOf(trace[1].res) = JsInt(1)

\* the node kinds that evaluate sub-expressions
Composite ==
    {"PrefixExpression", "InfixExpression", "IfExpression", "CallExpression",
     "ArrayLiteral", "HashLiteral", "IndexExpression", "LetStatement", "ReturnStatement"}

\* the evalNode call (its "enter" event) that made the call exited at j
ParentOf(j) ==
    CHOOSE i \in Events("enter") :
        /\ i < j
        /\ log[i].d = log[j].d - 1
        /\ \A k \in Events("enter") : (k < j /\ log[k].d = log[j].d - 1) => k <= i

\* the sub-evaluations of composite nodes that yielded an Error: exits one
\* level below a composite node, before the node applied a function
FailedSubEvaluations ==
    {j \in Events("exit") :
        /\ log[j].d > 1
        /\ log[j].vals[1].type = ERROR_OBJ
        /\ log[ParentOf(j)].node.kind \in Composite
        /\ \A k \in ParentOf(j)..j : ~(log[k].ev = "call" /\ log[k].d = log[j].d - 1)}

\* C6: as soon as a sub-evaluation of a prefix, infix, if, call, array, hash,
\* index, let or return node yields an Error, the node returns that same
\* Error: the node's exit follows at once, so no remaining sub-expression is
\* evaluated and no binding is made.
C6_ErrorShortCircuit ==
    /\ \A j \in FailedSubEvaluations :
          /\ log[j + 1].ev = "exit"
          /\ log[j + 1].d = log[j].d - 1
          /\ log[j + 1].node = log[ParentOf(j)].node
          /\ log[j + 1].vals[1] = log[j].vals[1]
    /\ \A k \in Events("exit") :
          (log[k].node.kind = "LetStatement" /\ log[k].vals[1].type = ERROR_OBJ)
              => log[k - 1].ev \notin {"set", "bound"}

\* u + 1 has returned the error of u without evaluating 1
C6_Witness ==
    /\ program = <<ExprStmt(Infix(U, "+", IntL(1))), ExprStmt(Ident("z"))>>
    /\ pc = "done"
    /\ result.str = "identifier not found: u"
    /\ FailedSubEvaluations # {}
    /\ \A i \in Events("enter") : log[i].node # IntL(1)

\* a value that is Boolean false or Null
IsFalseOrNull(v) == (v.type = BOOLEAN_OBJ /\ v.num = 0) \/ v.type = NULL_OBJ

\* C8: truthiness is decided by the value's kind and content only: !v is
\* true exactly when v is Boolean false or Null, and if (v) takes the
\* consequence exactly when v is neither, however v was produced.
C8_TruthinessByKind ==
    /\ \A i \in Events("prefix") :
          log[i].node.tok = "!" =>
              (log[i].vals[2] = TRUEOBJ <=> IsFalseOrNull(log[i].vals[1]))
    /\ \A i \in Events("truthy") :
          log[i].vals[2] = FALSEOBJ <=> IsFalseOrNull(log[i].vals[1])

\* !first([]) has been evaluated: its operand is a Null, its value is false
C8_Witness ==
    /\ program = <<ExprStmt(Prefix("!", FirstOfEmpty))>>
    /\ pc = "done"
    /\ \E i \in Events("prefix") : log[i].vals[1].type = NULL_OBJ
    /\ result = FALSEOBJ

\* the == and != evaluations whose operands are not both Integer and not
\* both String
IdentityComparisons ==
    {i \in Events("infix") :
        /\ log[i].node.tok \in {"==", "!="}
        /\ ~(log[i].vals[1].type = INTEGER_OBJ /\ log[i].vals[2].type = INTEGER_OBJ)
        /\ ~(log[i].vals[1].type = STRING_OBJ /\ log[i].vals[2].type = STRING_OBJ)}

\* both operands are the same one of the singletons TRUE, FALSE, NULL
SameSingleton(l, r) == l = r /\ l \in {TRUEOBJ, FALSEOBJ, NULL}

\* the literals of EqValues that evaluate to the same object every time
EvaluatesToOneObject(v) ==
    v \in {BoolLit(TRUE), BoolLit(FALSE), IfWithoutAlternative, Ident("len")}

\* C10 as stated: for operands not both Integer and not both String, == is
\* true only when both sides are the same Boolean or Null singleton, and is
\* never true for an Array, Hash, Function or Builtin operand.
C10_OnlySingletonsEqual ==
    \A i \in IdentityComparisons :
        LET l == log[i].vals[1]
            r == log[i].vals[2]
            eq == IF log[i].node.tok = "==" THEN TRUEOBJ ELSE FALSEOBJ
        IN /\ log[i].vals[3] = eq => SameSingleton(l, r)
           /\ l.type \in {ARRAY_OBJ, HASH_OBJ, FUNCTION_OBJ, BUILTIN_OBJ} => log[i].vals[3] # eq

\* C10 (amended): for operands not both Integer and not both String, == is
\* true exactly when both sides are the very same object and != is its
\* negation.  So a value compared with itself through the same binding is
\* equal to itself whatever its kind, two evaluations of true, of false, of
\* an if without alternative or of a builtin's name are equal, and two
\* separately created arrays, hashes, functions or builtin results never are.
C10_EqualIffSameObject ==
    /\ \A i \in IdentityComparisons :
          LET same == log[i].vals[1].ref = log[i].vals[2].ref IN
          log[i].vals[3] = nativeBoolToBooleanObject(
                              IF log[i].node.tok = "==" THEN same ELSE ~same)
    /\ (pc = "done" /\ program \in EqualityPrograms /\ IdentityComparisons # {}) =>
          LET l == program[3].kids[1].kids[1].tok
              r == program[3].kids[1].kids[2].tok
              valueOf(n) == IF n = "a" THEN program[1].kids[1] ELSE program[2].kids[1]
              same == l = r \/ (valueOf(l) = valueOf(r) /\ EvaluatesToOneObject(valueOf(l)))
          IN result = nativeBoolToBooleanObject(
                          IF program[3].kids[1].tok = "==" THEN same ELSE ~same)

\* let a = [1]; let b = [1]; a == a is true, and a == b would be false
C10_Witness ==
    /\ program = <<Let("a", ArrayLit(<<IntL(1)>>)), Let("b", ArrayLit(<<IntL(1)>>)),
                   ExprStmt(Infix(Ident("a"), "==", Ident("a")))>>
    /\ pc = "done"
    /\ IdentityComparisons # {}
    /\ result = TRUEOBJ

\* the integer an IntegerObject holds, when it holds one (-0 is 0)
IsFiniteInteger(o) == o.type = INTEGER_OBJ /\ o.cls \in {"int", "negzero"}

\* an integer division whose operands are integers and whose divisor is not 0
IsDivision ==
    /\ pc = "done"
    /\ infixIn # <<>>
    /\ infixIn[1] = "/"
    /\ IsFiniteInteger(infixIn[2])
    /\ IsFiniteInteger(infixIn[3])
    /\ infixIn[3].num # 0

Abs(n) == IF n < 0 THEN -n ELSE n

\* C7 as stated: integer division rounds the quotient toward zero, for
\* negative operands as well (7 / 2 = 3 and -7 / 2 = -3).
C7_DivisionTruncates ==
    IsDivision =>
        LET a == infixIn[2].num
            b == infixIn[3].num
            q == infixOut.num
        IN /\ IsFiniteInteger(infixOut)
           /\ Abs(q) * Abs(b) <= Abs(a)
           /\ Abs(a) < (Abs(q) + 1) * Abs(b)
           /\ (q # 0 => ((q < 0) <=> ((a < 0) # (b < 0))))

\* C7 (amended): integer division rounds the quotient toward negative
\* infinity: for all integer operands a and b with b # 0, a / b is the
\* greatest integer q with q * b <= a (for b > 0; q * b >= a for b < 0), so
\* 7 / 2 = 3 and -7 / 2 = -4.
C7_DivisionFloors ==
    /\ IsDivision =>
          LET a == infixIn[2].num
              b == infixIn[3].num
              q == infixOut.num
          IN /\ IsFiniteInteger(infixOut)
             /\ b > 0 => (q * b <= a /\ a < (q + 1) * b)
             /\ b < 0 => (q * b >= a /\ a > (q + 1) * b)
    /\ (IsDivision /\ infixIn[2].num = 7 /\ infixIn[3].num = 2) => infixOut.num = 3
    /\ (IsDivision /\ infixIn[2].num = -7 /\ infixIn[3].num = 2) => infixOut.num = -4

\* -7 / 2 has been evaluated
C7_Witness ==
    /\ IsDivision
    /\ infixIn[2].num = -7
    /\ infixIn[3].num = 2
    /\ infixOut.type = INTEGER_OBJ

\* the message of an infix error
InfixMessage(what, l, op, r) == what \o ": " \o l.type \o " " \o op \o " " \o r.type

\* C9: for an operator other than == and != whose operands are not both
\* Integer, operands of different kinds yield "type mismatch: L op R" and
\* operands of the same kind yield "unknown operator: L op R", except
\* String + String, which concatenates; two Strings with any operator other
\* than + (== and != included) yield "unknown operator: STRING op STRING".
C9_InfixErrors ==
    (pc = "done" /\ infixIn # <<>>) =>
        LET op == infixIn[1]
            l == infixIn[2]
            r == infixIn[3]
        IN /\ (op \notin {"==", "!="}
                    /\ ~(l.type = INTEGER_OBJ /\ r.type = INTEGER_OBJ)) =>
                 IF l.type # r.type
                 THEN /\ infixOut.type = ERROR_OBJ
                      /\ infixOut.str = InfixMessage("type mismatch", l, op, r)
                 ELSE IF l.type = STRING_OBJ /\ op = "+"
                 THEN /\ infixOut.type = STRING_OBJ
                      /\ infixOut.str = l.str \o r.str
                 ELSE /\ infixOut.type = ERROR_OBJ
                      /\ infixOut.str = InfixMessage("unknown operator", l, op, r)
           /\ (l.type = STRING_OBJ /\ r.type = STRING_OBJ /\ op # "+") =>
                 /\ infixOut.type = ERROR_OBJ
                 /\ infixOut.str = "unknown operator: STRING " \o op \o " STRING"

\* "a" == "b" has been evaluated to an unknown operator error
C9_Witness ==
    /\ pc = "done"
    /\ infixIn # <<>>
    /\ infixIn[1] = "=="
    /\ infixIn[2].type = STRING_OBJ
    /\ infixIn[2].str = "a"
    /\ infixIn[3].type = STRING_OBJ
    /\ infixIn[3].str = "b"
    /\ infixOut.str = "unknown operator: STRING == STRING"

\* the binding strength of the infix operators as the precedence table
\* ranks them: == != below < > below + - below * /
BindingLevel(type) ==
    CASE type \in {"==", "!="} -> 1
      [] type \in {"<", ">"} -> 2
      [] type \in {"+", "-"} -> 3
      [] type \in {"*", "/"} -> 4

\* the positions of the infix operators of an operator expression: the
\* operator tokens that follow an identifier or an integer
InfixPositions(toks) ==
    {i \in 2..Len(toks) : toks[i] \in InfixTokens /\ toks[i - 1] \in AtomTokens}

\* the fully parenthesized grouping of an operator expression: split at the
\* rightmost of the infix operators that bind weakest; without an infix
\* operator, a prefix operator applies to all that follows it
RECURSIVE Grouping(_)
Grouping(toks) ==
    LET ops == InfixPositions(toks) IN
    IF ops = {}
    THEN IF Len(toks) = 1 THEN toks[1].Literal
         ELSE "(" \o toks[1].Literal \o Grouping(Tail(toks)) \o ")"
    ELSE LET split == CHOOSE i \in ops : \A j \in ops :
                        \/ BindingLevel(toks[i].Type) < BindingLevel(toks[j].Type)
                        \/ (BindingLevel(toks[i].Type) = BindingLevel(toks[j].Type) /\ j <= i)
         IN "(" \o Grouping(SubSeq(toks, 1, split - 1)) \o " " \o toks[split].Literal
                \o " " \o Grouping(SubSeq(toks, split + 1, Len(toks))) \o ")"

\* the token sequence of a source text of one-character tokens
A1 == Tok("IDENT", "a")
I1 == Tok("INT", "1")
Op(t) == Tok(t, t)

\* C1: for every expression built from identifiers, integers, the prefix
\* operators ! and - and the infix operators + - * / == != < >, the parser
\* reports no error and the rendering of the parsed AST is the fully
\* parenthesized grouping the precedence table gives: a higher-precedence
\* operator binds tighter and equal-precedence operators group to the left.
C1_PrecedenceGrouping ==
    ppc = "parsed" =>
        /\ ps.errors = <<>>
        /\ Len(stmts) = 1
        /\ ProgramToString(stmts) = Grouping(tokens)
        /\ tokens = <<A1, Op("+"), I1, Op("*"), A1>> =>
              ProgramToString(stmts) = "(a + (1 * a))"
        /\ tokens = <<A1, Op("-"), I1, Op("-"), A1>> =>
              ProgramToString(stmts) = "((a - 1) - a)"

\* a == -a + 1 has been parsed
C1_Witness ==
    /\ ppc = "parsed"
    /\ tokens = <<A1, Op("=="), Op("-"), A1, Op("+"), I1>>
    /\ ProgramToString(stmts) = "(a == ((-a) + 1))"

\* the evaluations of array[index] with an Array and an Integer
ArrayIndexings ==
    {i \in Events("index") :
        log[i].vals[1].type = ARRAY_OBJ /\ log[i].vals[2].type = INTEGER_OBJ}

\* C11: indexing an Array of length n with an Integer i gives element i
\* when 0 <= i < n and the Null singleton for every other Integer; it never
\* gives an Error.
C11_ArrayIndexInBounds ==
    \A i \in ArrayIndexings :
        LET elements == log[i].vals[1].elems
            index == log[i].vals[2]
            inBounds == /\ IsFiniteInteger(index)
                        /\ 0 <= index.num
                        /\ index.num < Len(elements)
        IN /\ log[i].vals[3] = IF inBounds THEN elements[index.num + 1] ELSE NULL
           /\ log[i].vals[3].type # ERROR_OBJ

\* [5][0 / 0] has been evaluated: the index is the Integer NaN and the
\* program's result is undefined, not the Null singleton
C11_Witness ==
    /\ program = <<ExprStmt(Index(ArrayLit(<<IntL(5)>>), Infix(IntL(0), "/", IntL(0))))>>
    /\ pc = "done"
    /\ \E i \in ArrayIndexings : log[i].vals[2].cls = "nan"
    /\ result = Undefined

\* C12: indexing a Hash built from a hash literal with a hashable value k
\* gives the value of the pair whose key equals k in kind and content (the
\* later pair when the literal repeats a key), and Null when the literal has
\* no such key, also for String keys whose hash numbers are equal.
C12_HashIndexByKey ==
    (pc = "done" /\ program \in HashIndexPrograms) =>
        LET pairs == program[1].kids[1].kids[1].kids
            k == program[1].kids[1].kids[2]
            matching == {i \in 1..(Len(pairs) \div 2) : pairs[2 * i - 1] = k}
        IN IF matching = {} THEN result = NULL
           ELSE \E i \in matching :
                    /\ \A j \in matching : j <= i
                    /\ result.type = INTEGER_OBJ
                    /\ NumOf(result) = JsInt(pairs[2 * i].num)

\* {"Aa": 1, "BB": 2}["Aa"] has been evaluated: the hash holds one pair, its
\* key is "BB", and the result is 2
C12_Witness ==
    /\ program = <<ExprStmt(Index(HashLit(<<StrLit("Aa"), IntL(1), StrLit("BB"), IntL(2)>>),
                                   StrLit("Aa")))>>
    /\ pc = "done"
    /\ \E i \in Events("index") :
          /\ log[i].vals[1].type = HASH_OBJ
          /\ Len(log[i].vals[1].elems) = 2
          /\ log[i].vals[1].elems[1].str = "BB"
    /\ NumOf(result) = JsInt(2)

\* the kinds whose values are usable as hash keys
HashableKinds == {INTEGER_OBJ, BOOLEAN_OBJ, STRING_OBJ}

UnusableAsHashKey(res, key) ==
    res.type = ERROR_OBJ /\ res.str = "unusable as hash key: " \o key.type

\* C13: only Integer, Boolean and String values are usable as hash keys.
\* A hash literal whose key evaluates to an object of another kind ends at
\* once with the Error "unusable as hash key: {kind}", and so does an index
\* into a Hash with such an object; a key or index of the three kinds never
\* gives that Error.
C13_UnusableHashKeys ==
    /\ \A i \in Events("key") :
          LET key == log[i].vals[1] IN
          ~IsNullish(key) =>
              IF key.type \in HashableKinds
              THEN log[i + 1].ev = "enter"
              ELSE /\ log[i + 1].ev = "exit"
                   /\ log[i + 1].node.kind = "HashLiteral"
                   /\ UnusableAsHashKey(log[i + 1].vals[1], key)
    /\ \A i \in Events("index") :
          LET index == log[i].vals[2] IN
          (log[i].vals[1].type = HASH_OBJ /\ ~IsNullish(index)) =>
              IF index.type \in HashableKinds
              THEN log[i].vals[3].type # ERROR_OBJ
              ELSE UnusableAsHashKey(log[i].vals[3], index)

\* {1: 1}[len] has been evaluated and is the Error of a Builtin index
C13_Witness ==
    /\ program = <<ExprStmt(Index(HashLit(<<IntL(1), IntL(1)>>), Ident("len")))>>
    /\ pc = "done"
    /\ \E i \in Events("key") : log[i].vals[1].type = INTEGER_OBJ
    /\ \E i \in Events("index") : log[i].vals[2].type = BUILTIN_OBJ
    /\ result.type = ERROR_OBJ
    /\ result.str = "unusable as hash key: BUILTIN"

\* the exit of the evalNode call of the if expression whose condition was
\* tested at event i
IfExit(i) ==
    CHOOSE j \in Events("exit") :
        /\ j > i
        /\ log[j].d = log[i].d
        /\ \A k \in (i + 1)..(j - 1) : ~(log[k].ev = "exit" /\ log[k].d = log[i].d)

\* C14: an if expression whose condition evaluates without error evaluates
\* to a runtime object, never to the internal no-value, whichever block is
\* selected and also when that block is empty; with a falsy condition and no
\* alternative it evaluates to the Null singleton.
C14_IfYieldsAnObject ==
    \A i \in Events("truthy") :
        LET value == log[IfExit(i)].vals[1] IN
        /\ ~IsThrow(value) => ~IsNullish(value)
        /\ (log[i].vals[2] = FALSEOBJ /\ Len(log[i].node.kids) = 2) => value = NULL

\* if (true) { } has been evaluated and the program's result is the no-value
C14_Witness ==
    /\ program = <<ExprStmt(If(BoolLit(TRUE), Block(<<>>)))>>
    /\ pc = "done"
    /\ \E i \in Events("truthy") : log[i].vals[2] = TRUEOBJ
    /\ result = NoValue

IsWrapper(o) == o.type = RETURN_VALUE_OBJ

\* C15: a ReturnValue is never user-visible.  The result of a program is not
\* a ReturnValue, no name of any environment is bound to one, no Array
\* element and no Hash value is one, and no prefix, infix or index operator
\* and no builtin receives one as an operand.
C15_ReturnValueNeverVisible ==
    /\ pc = "done" => ~IsWrapper(result)
    /\ \A e \in DOMAIN heap.envs : \A n \in DOMAIN heap.envs[e].store :
          ~IsWrapper(heap.envs[e].store[n])
    /\ \A i \in Events("exit") :
          log[i].vals[1].type \in {ARRAY_OBJ, HASH_OBJ} =>
              \A k \in DOMAIN log[i].vals[1].elems : ~IsWrapper(log[i].vals[1].elems[k])
    /\ \A i \in Events("prefix") : ~IsWrapper(log[i].vals[1])
    /\ \A i \in Events("infix") \cup Events("index") :
          ~IsWrapper(log[i].vals[1]) /\ ~IsWrapper(log[i].vals[2])
    /\ \A i \in Events("builtin") :
          \A k \in 3..Len(log[i].vals) : ~IsWrapper(log[i].vals[k])

\* 1 + if (true) { return 1 } has been evaluated: + received a ReturnValue
\* and the program's result is the Error that names it
C15_Witness ==
    /\ program = <<ExprStmt(Infix(IntL(1), "+", ReturnInIf)), ExprStmt(IntL(4))>>
    /\ pc = "done"
    /\ \E i \in Events("infix") : IsWrapper(log[i].vals[2])
    /\ result.type = ERROR_OBJ
    /\ result.str = "type mismatch: INTEGER + RETURN_VALUE"

\* execute has returned after an evaluation that yielded a value
Evaluated == pc = "returned" /\ ~hasParseErrors(ps) /\ ~IsThrow(result)

\* C16: execute classifies every run.  When evaluation yields an Error
\* object the outcome is success = false with the Error as value and its
\* rendering "ERROR: " plus message as the only entry of errors; when it
\* yields anything else the outcome is success = true with the evaluated
\* result as value and no errors; success = true always comes with an empty
\* errors list.
C16_ExecuteClassifies ==
    /\ Evaluated =>
          IF ~IsNullish(result) /\ result.type = ERROR_OBJ
          THEN /\ outcome.success = FALSE
               /\ outcome.value = result
               /\ outcome.errors = <<"ERROR: " \o result.str>>
          ELSE /\ outcome.success = TRUE
               /\ outcome.value = result
               /\ outcome.errors = <<>>
    /\ outcome.success => (pc = "returned" /\ outcome.errors = <<>>)

\* let y = 9; -true; has been executed: the outcome is the failure that
\* carries the Error of -true
C16_Witness ==
    /\ Evaluated
    /\ Len(program) = 2
    /\ program[2] = ExprStmt(Prefix("-", BoolLit(TRUE)))
    /\ outcome.success = FALSE
    /\ outcome.value.type = ERROR_OBJ
    /\ outcome.errors = <<"ERROR: unknown operator: -BOOLEAN">>

\* C17: a parse error prevents evaluation.  When the parser reports at
\* least one error, execute returns success = false with no value and the
\* parser's messages as errors, and nothing is evaluated: no statement is
\* run, not even those before the error, and the environment execute was
\* given holds the bindings it held before.
C17_ParseErrorPreventsEvaluation ==
    (ppc = "parsed" /\ Len(ps.errors) > 0) =>
        /\ pc \in {"idle", "returned"}
        /\ trace = <<>>
        /\ log = <<>>
        /\ heap = GivenHeap(given)
        /\ pc = "returned" =>
              /\ outcome.success = FALSE
              /\ outcome.value = NoValue
              /\ outcome.errors = ps.errors

\* let x = 2; let 1; has been executed in an environment that binds x to 5:
\* the let before the error was parsed, and x is still 5
C17_Witness ==
    /\ pc = "returned"
    /\ tokens = <<Tok("LET", "let"), Name("x"), Sym("="), Num("2"), Sym(";"),
                  Tok("LET", "let"), Num("1"), Sym(";")>>
    /\ stmts # <<>>
    /\ stmts[1] = Let("x", IntL(2))
    /\ outcome.errors = <<"expected next token to be IDENT, got INT instead">>
    /\ NumOf(heap.envs[RootEnv].store["x"]) = JsInt(5)

\* C18: push and rest never mutate their argument.  After every call every
\* Array object that existed before it, the argument included, has the
\* elements it had, so the initial array keeps its length and elements
\* through any sequence of calls; a call that returns an array returns a new
\* Array object: for push the argument's elements followed by the new one,
\* for rest the argument's elements without the first.
C18_PushRestDoNotMutate ==
    calls > 0 =>
        /\ \A i \in DOMAIN ret.before : arr[i] = ret.before[i]
        /\ arr[1] \in InitialArrays
        /\ ret.res.type = ARRAY_OBJ =>
              /\ \A i \in DOMAIN ret.before : ret.before[i].ref # ret.res.ref
              /\ arr = Append(ret.before, ret.res)
              /\ ret.res.elems = IF ret.name = "push"
                                 THEN ret.args[1].elems \o <<ret.args[2]>>
                                 ELSE Tail(ret.args[1].elems)
        /\ ret.name = "push" => ret.res.type = ARRAY_OBJ

\* push(a, 7) and then rest of its result: a has its two elements, the
\* pushed array three, the rest two
C18_Witness ==
    /\ calls = 2
    /\ Len(arr) = 3
    /\ arr[1].elems = <<ElementOne, ElementTwo>>
    /\ arr[2].elems = <<ElementOne, ElementTwo, IntegerObject(JsInt(7), FirstRef + 3)>>
    /\ ret.name = "rest"
    /\ ret.args[1] = arr[2]
    /\ arr[3].elems = <<ElementTwo, IntegerObject(JsInt(7), FirstRef + 3)>>

\* the frames of the environment chain of e, nearest first
RECURSIVE Chain(_, _)
Chain(envs, e) ==
    IF envs[e].outer = 0 THEN <<e>> ELSE <<e>> \o Chain(envs, envs[e].outer)

\* a frame binds a name when it holds a value for it; a parameter that was
\* given no argument holds none
Binds(frame, name) == name \in DOMAIN frame.store /\ frame.store[name] # Undefined

\* C19: an Identifier resolves in a fixed order: to the value of the
\* nearest frame of the environment chain that binds the name, also when
\* the name is a builtin's; when no frame binds it, to the builtin of that
\* name; when there is none, to the Error "identifier not found: {name}".
C19_IdentifierResolution ==
    \A i \in Events("ident") :
        LET name == log[i].node.tok
            envs == log[i].snap
            chain == Chain(envs, log[i].env)
            binding == {k \in DOMAIN chain : Binds(envs[chain[k]], name)}
            val == log[i].vals[1]
        IN IF binding # {}
           THEN \E k \in binding :
                    /\ \A j \in binding : k <= j
                    /\ val = envs[chain[k]].store[name]
           ELSE IF name \in {BuiltinNames[k] : k \in DOMAIN BuiltinNames}
           THEN val.type = BUILTIN_OBJ /\ val.str = name
           ELSE val.type = ERROR_OBJ /\ val.str = "identifier not found: " \o name

\* let len = 1; fn(a) { fn(b) { len }(5) }(3) has been evaluated: len was
\* looked up two frames below the root and is the 1 the root binds
C19_Witness ==
    /\ program = <<Let("len", IntL(1)),
                   ExprStmt(Call(Fn(<<Ident("a")>>, Block(<<ExprStmt(Call(Fn(<<Ident("b")>>,
                       Block(<<ExprStmt(Ident("len"))>>)), <<IntL(5)>>))>>)), <<IntL(3)>>))>>
    /\ pc = "done"
    /\ \E i \in Events("ident") :
          /\ log[i].node.tok = "len"
          /\ Len(Chain(log[i].snap, log[i].env)) = 3
          /\ log[i].vals[1].type = INTEGER_OBJ
    /\ NumOf(result) = JsInt(1)

\* C20: runtime failures are values, not exceptions.  For every source
\* text that parses without syntax errors, evaluation raises no host
\* exception other than the exhaustion of the stack, and when it returns it
\* returns an Object or the internal no-value.
C20_FailuresAreValues ==
    (ppc = "parsed" /\ ~hasParseErrors(ps)) =>
        /\ IsThrow(result) => result = StackExhausted
        /\ pc \in {"done", "returned"} => result # Undefined

\* -if (true) { }; has been executed: it parsed without error, evaluation
\* raised a TypeError and execute returned the failure of its catch clause
C20_Witness ==
    /\ tokens = <<Sym("-")>> \o IfTrueEmpty \o <<Sym(";")>>
    /\ pc = "returned"
    /\ ps.errors = <<>>
    /\ program = <<ExprStmt(Prefix("-", If(BoolLit(TRUE), Block(<<>>))))>>
    /\ result = Throw
    /\ outcome = [success |-> FALSE, value |-> NoValue, errors |-> <<"TypeError">>,
                  program |-> NilNode]

\* the kinds of runtime objects
ObjectKinds ==
    {INTEGER_OBJ, BOOLEAN_OBJ, STRING_OBJ, NULL_OBJ, ERROR_OBJ, RETURN_VALUE_OBJ,
     FUNCTION_OBJ, BUILTIN_OBJ, ARRAY_OBJ, HASH_OBJ}

\* the Error objects the evaluation of the statement made
ErrorsMade ==
    {log[i].vals[1] : i \in {j \in Events("exit") : log[j].vals[1].type = ERROR_OBJ}}

\* the names of the identifiers the statement looked up
NamesLookedUp == {log[i].node.tok : i \in Events("ident")}

BuiltinNameSet == {BuiltinNames[i] : i \in DOMAIN BuiltinNames}

\* the messages of the eight listed formats
ListedMessages ==
    {"type mismatch: " \o l \o " " \o op \o " " \o r :
        l \in ObjectKinds, op \in InfixOperators, r \in ObjectKinds}
    \cup {"unknown operator: " \o op \o t : op \in {"!", "-"}, t \in ObjectKinds}
    \cup {"unknown operator: " \o l \o " " \o op \o " " \o r :
            l \in ObjectKinds, op \in InfixOperators, r \in ObjectKinds}
    \cup {"identifier not found: " \o name : name \in NamesLookedUp}
    \cup {"not a function: " \o t : t \in ObjectKinds}
    \cup {"index operator not supported: " \o t : t \in ObjectKinds}
    \cup {"unusable as hash key: " \o t : t \in ObjectKinds}
    \cup {"wrong number of arguments. got=" \o ToString(got) \o ", want=" \o ToString(want) :
            got \in 0..3, want \in 1..2}
    \cup {"argument to '" \o fn \o "' not supported, got " \o t :
            fn \in BuiltinNameSet, t \in ObjectKinds}

\* the messages of the format argument to '{fn}' must be {expected}, got {T}
MustBeMessages ==
    {"argument to '" \o fn \o "' must be " \o expected \o ", got " \o t :
        fn \in BuiltinNameSet, expected \in ObjectKinds, t \in ObjectKinds}

\* C21 as stated: every Error object the evaluator or a builtin makes
\* carries a message of one of the eight listed formats.
C21_EightFormats == \A e \in ErrorsMade : e.str \in ListedMessages

\* C21 (amended): every Error object the evaluator or a builtin makes
\* carries a message of one of nine formats: the eight listed ones and
\* "argument to '{fn}' must be {expected}, got {T}", which first, last, rest
\* and push give for a first argument that is not an Array.
C21_NineFormats ==
    /\ \A e \in ErrorsMade : e.str \in ListedMessages \cup MustBeMessages
    /\ \A i \in Events("builtin") :
          LET fn == log[i].vals[1].str
              res == log[i].vals[2]
          IN (/\ fn \in {"first", "last", "rest", "push"}
              /\ res.type = ERROR_OBJ
              /\ res.str \notin ListedMessages)
                => res.str = "argument to '" \o fn \o "' must be ARRAY, got "
                                \o log[i].vals[3].type

\* first(1) has been evaluated to the Error of the ninth format
C21_Witness ==
    /\ program = <<ExprStmt(Call(Ident("first"), <<IntL(1)>>))>>
    /\ pc = "done"
    /\ result \in ErrorsMade
    /\ result.str = "argument to 'first' must be ARRAY, got INTEGER"
    /\ result.str \notin ListedMessages

\* the statements of a source text: the tokens up to and including each ;
RECURSIVE SplitStatements(_, _)
SplitStatements(toks, cur) ==
    IF toks = <<>> THEN (IF cur = <<>> THEN <<>> ELSE <<cur>>)
    ELSE IF Head(toks).Type = ";"
    THEN <<Append(cur, Head(toks))>> \o SplitStatements(Tail(toks), <<>>)
    ELSE SplitStatements(Tail(toks), Append(cur, Head(toks)))

\* the expression statement whose first token is first
StmtAt(first, e) == N("ExpressionStatement", first, 0, <<e>>)

\* the well-formed statements of ExecuteChunks and the node of each
WellFormed ==
    { <<<<Num("5"), Sym(";")>>, ExprStmt(IntL(5))>>,
      <<<<Tok("LET", "let"), Name("y"), Sym("="), Num("9"), Sym(";")>>, Let("y", IntL(9))>>,
      <<<<Tok("LET", "let"), Name("x"), Sym("="), Num("2"), Sym(";")>>, Let("x", IntL(2))>>,
      <<<<Name("x"), Sym(";")>>, ExprStmt(Ident("x"))>>,
      <<<<Name("y"), Sym("+"), Num("1"), Sym(";")>>,
        StmtAt("y", Infix(Ident("y"), "+", IntL(1)))>>,
      <<<<Sym("-"), Tok("TRUE", "true"), Sym(";")>>, ExprStmt(Prefix("-", BoolLit(TRUE)))>>,
      <<<<Tok("RETURN", "return"), Num("3"), Sym(";")>>, Return(IntL(3))>>,
      <<IfTrueEmpty \o <<Sym(";")>>, ExprStmt(If(BoolLit(TRUE), Block(<<>>)))>>,
      <<<<Sym("-")>> \o IfTrueEmpty \o <<Sym(";")>>,
        ExprStmt(Prefix("-", If(BoolLit(TRUE), Block(<<>>))))>>,
      <<<<Sym("["), Num("1"), Sym("]"), Sym("["), Num("0"), Sym("/"), Num("0"),
          Sym("]"), Sym(";")>>,
        ExprStmt(Index(ArrayLit(<<IntL(1)>>), Infix(IntL(0), "/", IntL(0))))>>,
      <<<<Tok("LET", "let"), Name("f"), Sym("="), Tok("FUNCTION", "fn"), Sym("("), Sym(")"),
          Sym("{"), Name("f"), Sym("("), Sym(")"), Sym("}"), Sym(";")>>,
        Let("f", Fn(<<>>, Block(<<StmtAt("f", Call(Ident("f"), <<>>))>>)))>>,
      <<<<Name("f"), Sym("("), Sym(")"), Sym(";")>>, StmtAt("f", Call(Ident("f"), <<>>))>> }

IsWellFormed(c) == \E w \in WellFormed : w[1] = c

\* the nodes of the well-formed statements of a list, in order
RECURSIVE NodesOf(_)
NodesOf(cs) ==
    IF cs = <<>> THEN <<>>
    ELSE (IF IsWellFormed(Head(cs))
          THEN <<(CHOOSE w \in WellFormed : w[1] = Head(cs))[2]>> ELSE <<>>)
         \o NodesOf(Tail(cs))

\* C22: when a statement fails to parse, parseProgram records an error,
\* omits that statement entirely and parses the statements that follow it:
\* the Program holds the nodes of the well-formed statements, in source
\* order, and no statement built from the tokens of a failed one.
C22_FailedStatementOmitted ==
    ppc = "parsed" =>
        LET cs == SplitStatements(tokens, <<>>) IN
        /\ stmts = NodesOf(cs)
        /\ (\E i \in DOMAIN cs : ~IsWellFormed(cs[i])) => ps.errors # <<>>

\* let 1; 5; has been parsed: one error, and the Program holds the
\* statement 1 made of the rest of the failed let, before the statement 5
C22_Witness ==
    /\ ppc = "parsed"
    /\ tokens = <<Tok("LET", "let"), Num("1"), Sym(";"), Num("5"), Sym(";")>>
    /\ ps.errors = <<"expected next token to be IDENT, got INT instead">>
    /\ stmts = <<ExprStmt(IntL(1)), ExprStmt(IntL(5))>>

\* the objects the evaluation of the statement yielded, the program's
\* result and the objects bound in the environments
ObjectsSeen ==
    {log[i].vals[1] : i \in {j \in Events("exit") : ~IsNullish(log[j].vals[1])}}
        \cup (IF pc = "done" /\ ~IsNullish(result) THEN {result} ELSE {})
        \cup UNION {{heap.envs[e].store[n] : n \in DOMAIN heap.envs[e].store} :
                        e \in DOMAIN heap.envs}

IsSingleton(o) ==
    /\ o.type = BOOLEAN_OBJ => (o = TRUEOBJ \/ o = FALSEOBJ)
    /\ o.type = NULL_OBJ => o = NULL

\* C23: Boolean and Null are singletons.  Every Boolean the evaluation of
\* any program yields or binds is one of the two shared Boolean objects and
\* every Null is the one shared Null object, whichever construct made it.
C23_BooleanAndNullSingletons == \A o \in ObjectsSeen : IsSingleton(o)

\* !last([]) has been evaluated: last returned a Null that is not the
\* shared one, and ! of it is false
C23_Witness ==
    /\ program = <<ExprStmt(Prefix("!", LastOfEmpty))>>
    /\ pc = "done"
    /\ \E o \in ObjectsSeen : o.type = NULL_OBJ /\ o.ref # NULL.ref
    /\ result = FALSEOBJ

\* the exit of the evalNode call entered at event i
ExitOf(i) ==
    CHOOSE j \in Events("exit") :
        /\ j > i
        /\ log[j].d = log[i].d
        /\ \A k \in (i + 1)..(j - 1) : ~(log[k].ev = "exit" /\ log[k].d = log[i].d)

\* the evaluations of call expressions
CallEnters == {i \in Events("enter") : log[i].node.kind = "CallExpression"}

\* the applications the call entered at i made
Applied(i) ==
    {k \in (i + 1)..ExitOf(i) : log[k].ev \in {"call", "builtin"} /\ log[k].d = log[i].d}

\* the evaluations of the callee and the arguments of the call entered at i:
\* the evalNode calls it made before it applied anything
Operands(i) ==
    {k \in (i + 1)..ExitOf(i) :
        /\ log[k].ev = "enter"
        /\ log[k].d = log[i].d + 1
        /\ \A a \in Applied(i) : k < a}

\* C24: a call expression evaluates the callee first and then the
\* arguments from left to right, each once.  When one of them yields an
\* Error it is the last one evaluated, nothing is applied and the call
\* yields that Error; when all yield values, a Function or Builtin callee is
\* applied once to the argument values in order, and any other callee makes
\* the call yield the Error "not a function: {T}".
C24_CallEvaluationOrder ==
    \A i \in CallEnters :
        LET kids == log[i].node.kids
            ops == Operands(i)
            rank(k) == Cardinality({m \in ops : m <= k})
            val(k) == log[ExitOf(k)].vals[1]
            out == log[ExitOf(i)].vals[1]
            failed == {k \in ops : IsNullish(val(k)) \/ val(k).type \in {ERROR_OBJ, "THROW"}}
        IN /\ Cardinality(ops) <= Len(kids)
           /\ \A k \in ops : log[k].node = kids[rank(k)]
           /\ \A k \in failed :
                 /\ rank(k) = Cardinality(ops)
                 /\ Applied(i) = {}
                 /\ val(k).type = ERROR_OBJ => out = val(k)
           /\ (failed = {} /\ ~IsThrow(out)) =>
                 /\ Cardinality(ops) = Len(kids)
                 /\ \E f \in ops :
                       /\ rank(f) = 1
                       /\ IF val(f).type \in {FUNCTION_OBJ, BUILTIN_OBJ}
                          THEN \E a \in Applied(i) :
                                  /\ Applied(i) = {a}
                                  /\ log[a].ev = IF val(f).type = FUNCTION_OBJ
                                                 THEN "call" ELSE "builtin"
                                  /\ log[a].vals[1] = val(f)
                                  /\ LET args == IF log[a].ev = "call"
                                                 THEN Tail(log[a].vals)
                                                 ELSE Tail(Tail(log[a].vals))
                                     IN /\ Len(args) = Len(kids) - 1
                                        /\ \A k \in ops :
                                              rank(k) > 1 => args[rank(k) - 1] = val(k)
                          ELSE /\ Applied(i) = {}
                               /\ out.type = ERROR_OBJ
                               /\ out.str = "not a function: " \o val(f).type

\* fn(a, b) { a }(1, v) has been evaluated: the callee and both arguments
\* were evaluated, the second one failed and nothing was applied
C24_Witness ==
    /\ program = <<ExprStmt(Call(Fn(<<Ident("a"), Ident("b")>>,
                                    Block(<<ExprStmt(Ident("a"))>>)),
                                 <<IntL(1), Ident("v")>>))>>
    /\ pc = "done"
    /\ \E i \in CallEnters : Cardinality(Operands(i)) = 3 /\ Applied(i) = {}
    /\ result.str = "identifier not found: v"

\* the function literals of a node
RECURSIVE FunctionLiterals(_)
FunctionLiterals(node) ==
    (IF node.kind = "FunctionLiteral" THEN {node} ELSE {})
        \cup UNION {FunctionLiterals(node.kids[k]) : k \in DOMAIN node.kids}

FunctionLiteralsParsed == UNION {FunctionLiterals(stmts[k]) : k \in DOMAIN stmts}

\* the tokens between the parentheses of the input fn ( ... ) { }
ParamsGiven == SubSeq(tokens, 3, Len(tokens) - 3)

\* parameters separated by commas: the odd positions are parameter positions
IsParameterList(l) ==
    l = <<>> \/ (Len(l) % 2 = 1 /\ \A k \in DOMAIN l : k % 2 = 0 => l[k].Type = ",")

\* C25: a function literal's parameter list accepts only identifiers.  When
\* a parameter position of fn ( ... ) holds a token that is not an
\* identifier, the parser records a syntax error and makes no
\* FunctionLiteral; every parameter of every FunctionLiteral of the Program
\* is the name of an identifier token.
C25_ParametersAreIdentifiers ==
    ppc = "parsed" =>
        /\ (/\ IsParameterList(ParamsGiven)
            /\ \E k \in DOMAIN ParamsGiven : k % 2 = 1 /\ ParamsGiven[k].Type # "IDENT")
              => (ps.errors # <<>> /\ FunctionLiteralsParsed = {})
        /\ \A f \in FunctionLiteralsParsed :
              \A k \in 2..Len(f.kids) :
                  \E t \in DOMAIN tokens :
                      tokens[t].Type = "IDENT" /\ tokens[t].Literal = f.kids[k].tok

\* fn (a, 1) { } has been parsed without error into a FunctionLiteral whose
\* second parameter is named 1
C25_Witness ==
    /\ ppc = "parsed"
    /\ tokens = FunctionLiteralTokens(<<Tok("IDENT", "a"), Tok(",", ","), Tok("INT", "1")>>)
    /\ ps.errors = <<>>
    /\ FunctionLiteralsParsed = {Fn(<<Ident("a"), Ident("1")>>, Block(<<>>))}

\* the identifiers evaluated in the environment of the call made at event
\* c that name a parameter of the called function not bound again by a let
\* of the body
ParameterReads(c) ==
    {i \in Events("ident") :
        /\ c < i
        /\ log[i].env = log[c].env
        /\ \E k \in DOMAIN log[c].vals[1].names : log[c].vals[1].names[k] = log[i].node.tok
        /\ \A s \in Events("set") :
              (c < s /\ s < i /\ log[s].env = log[c].env) => log[s].node.tok # log[i].node.tok}

\* C26: inside the body of a called Function a parameter name refers to the
\* call's own binding, the argument in the parameter's position, never to a
\* binding of an enclosing environment or to a builtin.  A call with fewer
\* arguments than parameters raises no arity error: the body is evaluated
\* and a reference to a parameter without argument yields "identifier not
\* found"; arguments beyond the parameters are ignored.
C26_ParametersAreOwnBindings ==
    \A c \in Events("call") :
        LET names == log[c].vals[1].names
            args == Tail(log[c].vals)
        IN /\ log[c + 1].ev = "enter"
           /\ log[c + 1].node = log[c].vals[1].body
           /\ \A i \in ParameterReads(c) :
                 LET name == log[i].node.tok
                     val == log[i].vals[1]
                 IN \E k \in DOMAIN names :
                       /\ names[k] = name
                       /\ \A j \in DOMAIN names : names[j] = name => j <= k
                       /\ IF k <= Len(args) THEN val = args[k]
                          ELSE /\ val.type = ERROR_OBJ
                               /\ val.str = "identifier not found: " \o name

\* let a = 2; fn(a) { a }() has been evaluated: the parameter a had no
\* argument, and a in the body is the 2 of the root environment
C26_Witness ==
    /\ program = <<Let("a", IntL(2)),
                   ExprStmt(Call(Fn(<<Ident("a")>>, Block(<<ExprStmt(Ident("a"))>>)), <<>>))>>
    /\ pc = "done"
    /\ \E c \in Events("call") : Len(log[c].vals) = 1 /\ ParameterReads(c) # {}
    /\ NumOf(result) = JsInt(2)

\* C27: parseProgram returns on every token sequence, also when the input
\* stops inside an unclosed block, list, hash or parameter list: no loop of
\* the parse functions runs an iteration that consumes no token, each
\* iteration of the loop of parseProgram leaves fewer tokens than it found,
\* and the loop is left exactly when the current token is EOF.  The tokens
\* left are a natural number, so the loop cannot go on for ever.
C27_ParseProgramTerminates ==
    [][/\ ~ps'.stuck
       /\ ppc' = "parse" => Remaining(ps') < Remaining(ps)
       /\ ppc' = "parsed" => curTokenIs(ps, "EOF") /\ Remaining(ps) = 0]_vars

\* if (a) { b  has been parsed: the block was never closed
C27_Witness ==
    /\ ppc = "parsed"
    /\ tokens = <<Tok("IF", "if"), Sym("("), Name("a"), Sym(")"), Sym("{"), Name("b")>>
    /\ ~ps.stuck
    /\ Len(stmts) = 1

\* the calls entered and not yet returned from when event i was recorded
OpenCalls(i) ==
    {c \in Events("call") :
        /\ c < i
        /\ ~\E r \in Events("return") : c < r /\ r < i /\ log[r].env = log[c].env}

\* the environment of the innermost function call event i lies in, the
\* root environment outside every call
EnclosingEnv(i) ==
    IF OpenCalls(i) = {} THEN RootEnv
    ELSE log[CHOOSE c \in OpenCalls(i) : \A d \in OpenCalls(i) : d <= c].env

\* the events that recorded the environments
Snapshots == {i \in DOMAIN log : log[i].snap # <<>>}

\* the lets of the log that no later let of the same name in the same
\* environment has overwritten
LastSets ==
    {s \in Events("set") :
        \A t \in Events("set") :
            (log[t].env = log[s].env /\ log[t].node.tok = log[s].node.tok) => t <= s}

\* C28: blocks do not open a scope.  A let, also one inside the block of an
\* if, binds its name in the environment of the innermost function call it
\* runs in, the root environment outside every call; the binding is what a
\* later read of the name in that environment yields and is still there
\* when the statement has finished; the number of environments grows by
\* one with every function application and by nothing else.
C28_BlocksOpenNoScope ==
    /\ \A s \in Events("set") :
          /\ log[s].env = EnclosingEnv(s)
          /\ \A i \in Events("ident") :
                (/\ s < i
                 /\ log[i].env = log[s].env
                 /\ log[i].node.tok = log[s].node.tok
                 /\ \A t \in Events("set") :
                       (s < t /\ t < i /\ log[t].env = log[s].env)
                           => log[t].node.tok # log[s].node.tok)
                    => log[i].vals[1] = log[s].vals[1]
    /\ pc \in {"run", "done"} =>
          \A s \in LastSets :
              /\ log[s].node.tok \in DOMAIN heap.envs[log[s].env].store
              /\ heap.envs[log[s].env].store[log[s].node.tok] = log[s].vals[1]
    /\ \A i \in Snapshots :
          /\ \A j \in Snapshots :
                i < j => Len(log[j].snap) = Len(log[i].snap)
                            + Cardinality({c \in Events("call") : i <= c /\ c < j})
          /\ pc \in {"run", "done"} =>
                Len(heap.envs) = Len(log[i].snap)
                                    + Cardinality({c \in Events("call") : i <= c})

\* fn() { if (true) { let x = 1 } else { let x = 2 }; x }(7) has been
\* evaluated: the let of the block bound x in the environment of the call,
\* where the read after the if found it
C28_Witness ==
    /\ pc = "run"
    /\ \E c \in Events("call") : \E s \in Events("set") : \E i \in Events("ident") :
          /\ c < s /\ s < i
          /\ log[s].env = log[c].env
          /\ log[s].env # RootEnv
          /\ log[s].node = Let("x", IntL(1))
          /\ \E t \in Events("truthy") : c < t /\ t < s
          /\ log[i].node = X
          /\ log[i].env = log[c].env
          /\ log[i].vals[1] = log[s].vals[1]
          /\ \E r \in Events("return") : i < r /\ log[r].env = log[c].env

\* a slot of the node, or of a node below it, holds no node
RECURSIVE HasEmptySlot(_)
HasEmptySlot(node) ==
    \E k \in DOMAIN node.kids : node.kids[k].kind = "nil" \/ HasEmptySlot(node.kids[k])

\* C29: a parse function that returns no node has recorded a syntax error:
\* at every moment of parseProgram the statements left out because
\* parseStatement returned null are at most as many as the errors recorded,
\* and when parseProgram has finished with an empty error list no statement
\* was left out, at top level or in a block, and every slot of every node
\* of the Program holds a node.
C29_NoNodeMeansError ==
    ppc \in {"parse", "parsed"} =>
        /\ ps.dropped <= Len(ps.errors)
        /\ (ppc = "parsed" /\ ps.errors = <<>>) =>
              /\ ps.dropped = 0
              /\ \A k \in DOMAIN stmts : ~HasEmptySlot(stmts[k])

\* fn ( a ) { fn ( b  has been parsed: the inner function literal yielded no
\* node, the statement of the block that held it was left out, and an
\* error is recorded
C29_Witness ==
    /\ ppc = "parsed"
    /\ tokens = <<Tok("FUNCTION", "fn"), Sym("("), Name("a"), Sym(")"), Sym("{"),
                  Tok("FUNCTION", "fn"), Sym("("), Name("b")>>
    /\ stmts = <<N("ExpressionStatement", "fn", 0, <<Fn(<<Ident("a")>>, Block(<<>>))>>)>>
    /\ ps.dropped = 1
    /\ Len(ps.errors) = 1

\* an arithmetic operator applied to two Integers that hold integers
IsIntegerArithmetic ==
    /\ pc = "done"
    /\ infixIn # <<>>
    /\ infixIn[1] \in {"+", "-", "*", "/"}
    /\ IsFiniteInteger(infixIn[2])
    /\ IsFiniteInteger(infixIn[3])

\* C30: integer arithmetic is closed over the integers: for all Integer
\* operands a and b and every operator among + - * /, the result is an
\* Integer holding a whole, finite number or an Error, for every divisor b,
\* b = 0 included.
C30_IntegerArithmeticClosed ==
    IsIntegerArithmetic => (IsFiniteInteger(infixOut) \/ infixOut.type = ERROR_OBJ)

\* 1 / 0 has been evaluated: the result is an Integer that holds Infinity
C30_Witness ==
    /\ IsIntegerArithmetic
    /\ infixIn[1] = "/"
    /\ infixIn[2].cls = "int" /\ infixIn[2].num = 1
    /\ infixIn[3].cls = "int" /\ infixIn[3].num = 0
    /\ infixOut.type = INTEGER_OBJ
    /\ infixOut.cls = "inf"

====
